---------------------------- MODULE Spec2Model ----------------------------
(***************************************************************************)
(* A model of the earnings screener of ib_comm: the volatility term        *)
(* structure (build_term_structure), the ATM selection and the             *)
(* classification of compute_recommendation in its two variants            *)
(* (trade_rec.py, "v1", and trade_rec_v2.py, "v2"), and the batch          *)
(* screening that calls them (earnings_calendar*.py).                      *)
(*                                                                         *)
(* Floating point numbers are modelled as exact rationals, together with   *)
(* the special values NaN, +-inf and Python's None; rounding error of the  *)
(* float arithmetic is outside the model.                                  *)
(***************************************************************************)
EXTENDS Integers, Sequences, FiniteSets, TLC

VARIABLES
    \* --- build_term_structure, applied to a list of points -------------
    ts_variant,   \* which module's build_term_structure: "v1" | "v2"
    ts_days,      \* argument days
    ts_ivs,       \* argument ivs
    ts_fn,        \* the closure returned (or the exception raised)
    ts_dte,       \* the last query dte
    ts_val,       \* the value returned for it
    \* --- the rating step of earnings_calendar.get_earnings_for_date ------
    rt_rows,      \* df: one record per row
    rt_idx,       \* the row the rating loop is at
    rt_result,    \* the DataFrame returned, or NotReturned
    \* --- the ATM selection of compute_recommendation, one expiration -----
    at_variant,   \* "v1" (trade_rec) | "v2" (trade_rec_v2)
    at_price,     \* underlying_price / current_price
    at_calls,     \* the call quotes in the provider's order
    at_puts,      \* the put quotes in the provider's order
    at_sel,       \* the selection made: status, call_idx, put_idx, atm_iv_value
    \* --- compute_recommendation(ticker), one call ------------------------
    variant,          \* "v1" (trade_rec) | "v2" (trade_rec_v2)
    pc,               \* the step the call is at
    exp_dates,        \* v1 exp_dates / v2 expirations, as days from today
    options_chains,   \* v1: the chains fetched, in insertion order
    underlying_price, \* v1 underlying_price / v2 current_price
    strikes,          \* v2: the candidate strikes
    pos,              \* the position of the running loop in its iterable
    i,                \* the loop counter i of the ATM loop
    dtes,             \* days to expiry of the expirations that gave an ATM IV
    ivs,              \* their ATM IVs (v1: the values of atm_iv, in order)
    straddle,         \* the straddle price
    call_bid, call_ask, put_bid, put_ask,  \* the quotes read at i == 0
    term_spline,      \* the term structure closure
    ts_slope_0_45,    \* the slope
    price_history,    \* the bars fetched: their number, Yang-Zhang value, mean volume
    iv30_rv30,
    avg_volume,
    result,           \* what the call returned or raised
    failed,   \* the expirations whose provider request failed
    call_idx, put_idx,  \* the rows of the ATM call and put of the turn (0: none yet)
    requests,         \* v1: the provider requests issued so far, in order
    \* --- the batch loop over the symbols of the day ---------------------
    bt_variant,   \* "ec1" earnings_calendar | "ec2" earnings_calendar_v2 | "ec5" earnings_calendar_v5
    bt_tickers,   \* the symbols of the batch, in order
    bt_idx,       \* the symbol the loop is at
    bt_df,        \* ec1: df, one record per symbol
    bt_results,   \* ec2, ec5: results
    bt_errors,    \* the symbols whose failure was logged (ec5: error_details)
    bt_end,       \* "running" | "returned" | "raised"
    bt_out,       \* the rows handed out at the end
    bt_data,      \* what compute_recommendation makes of the data of each symbol taken so far
    \* --- one application of a function of the program to an argument ---
    fn_name,      \* the function applied
    fn_arg,       \* its argument
    fn_out,       \* [done, ok, val]: applied or not, returned or raised, the value returned
    \* --- one IBKR data client and its API callback thread ----------
    wt_client,  \* "market" MarketDataClient | "account" AccountDataClient
    app_data,  \* self.app.data / self.app.trades: the rows appended by the callback
    data_received,  \* self.app.data_received
    wt_end_req,  \* the request whose end callback set data_received last (0: none)
    wt_pc,  \* the line the calling thread is at
    wt_call,  \* the number of the call running or last run (0: none yet)
    wt_clock,  \* polls slept since start_time
    wt_socket,  \* the messages sent by the gateway and not yet dispatched, in order
    wt_unanswered,  \* the requests the gateway has not answered
    wt_ret, \* what each call returned, in order
    \* --- the market-data subscriptions of earnings_calendar_v2 -------
    sb_fn,  \* the method running or last run: "get_option_data" | "get_market_cap"
    sb_answers,  \* the answers of the brokerage to the call
    sb_pc,  \* "idle" | "subscribed": after reqMktData, before the return
    sb_open,  \* the number of subscriptions opened and not cancelled
    sb_calls,  \* the number of calls started
    sb_path, \* the return path of the last call that returned
    \* --- AllocationParser.process_emails over the emails table ------
    ap_good,  \* the emails whose content parse_email turns into allocation data
    ap_processed,  \* the emails whose row has processed = 1
    ap_run,  \* the number of the run of process_emails running or last run
    ap_pc,  \* "idle" | "loop"
    ap_emails,  \* emails: the list the run fetched
    ap_idx,  \* the position of the loop in emails
    ap_parsed,  \* the (email, run) pairs for which parse_email was called
    ap_files,  \* the (email, run) pairs for which a file was written
    ap_marked, \* the (email, run) pairs for which the row was marked processed
    \* --- the two implementations of DatabaseInterface ---------------
    db_sqlite,  \* SQLiteDatabase: the rows of account_trades, in order
    db_postgres,  \* PostgresDatabase: the rows of account_trades
    db_pg_aborted,  \* PostgresDatabase: a statement failed and the transaction was not rolled back
    db_batches  \* the DataFrames passed to save_trades so far, in order

tsVars == <<ts_variant, ts_days, ts_ivs, ts_fn, ts_dte, ts_val>>

rtVars == <<rt_rows, rt_idx, rt_result>>

atVars == <<at_variant, at_price, at_calls, at_puts, at_sel>>

recVars == <<variant, pc, exp_dates, options_chains, underlying_price, strikes,
             pos, i, dtes, ivs, straddle, call_bid, call_ask, put_bid, put_ask,
             term_spline, ts_slope_0_45, price_history, iv30_rv30, avg_volume,
             result, failed, call_idx, put_idx, requests>>

btVars == <<bt_variant, bt_tickers, bt_idx, bt_df, bt_results, bt_errors, bt_end, bt_out,
            bt_data>>

fnVars == <<fn_name, fn_arg, fn_out>>

wtVars == <<wt_client, app_data, data_received, wt_end_req, wt_pc, wt_call, wt_clock, wt_socket, wt_unanswered, wt_ret>>

sbVars == <<sb_fn, sb_answers, sb_pc, sb_open, sb_calls, sb_path>>

apVars == <<ap_good, ap_processed, ap_run, ap_pc, ap_emails, ap_idx, ap_parsed, ap_files, ap_marked>>

dbVars == <<db_sqlite, db_postgres, db_pg_aborted, db_batches>>

vars == <<tsVars, rtVars, atVars, recVars, btVars, fnVars, wtVars, sbVars, apVars, dbVars>>

notTS == <<rtVars, atVars, recVars, btVars, fnVars, wtVars, sbVars, apVars, dbVars>>

notRT == <<tsVars, atVars, recVars, btVars, fnVars, wtVars, sbVars, apVars, dbVars>>

notAT == <<tsVars, rtVars, recVars, btVars, fnVars, wtVars, sbVars, apVars, dbVars>>

notRec == <<tsVars, rtVars, atVars, btVars, fnVars, wtVars, sbVars, apVars, dbVars>>

notBT == <<tsVars, rtVars, atVars, recVars, fnVars, wtVars, sbVars, apVars, dbVars>>

notFn == <<tsVars, rtVars, atVars, recVars, btVars, wtVars, sbVars, apVars, dbVars>>

notWt == <<tsVars, rtVars, atVars, recVars, btVars, fnVars, sbVars, apVars, dbVars>>

notSb == <<tsVars, rtVars, atVars, recVars, btVars, fnVars, wtVars, apVars, dbVars>>

notAp == <<tsVars, rtVars, atVars, recVars, btVars, fnVars, wtVars, sbVars, dbVars>>

notDb == <<tsVars, rtVars, atVars, recVars, btVars, fnVars, wtVars, sbVars, apVars>>

Variants == {"v1", "v2"}

(***************************************************************************)
(* Numbers.  A value is a record [k, n, d]: k = "num" is the rational n/d  *)
(* in lowest terms with d > 0; k = "nan" is NaN; k = "inf" is +inf (n = 1) *)
(* or -inf (n = -1); k = "none" is Python's None.                          *)
(***************************************************************************)
Abs(x) == IF x < 0 THEN -x ELSE x

RECURSIVE GCD(_, _)
GCD(a, b) == IF b = 0 THEN a ELSE GCD(b, a % b)

Sign(x) == IF x < 0 THEN -1 ELSE IF x = 0 THEN 0 ELSE 1

Rat(n, d) ==
    LET g == GCD(Abs(n), Abs(d))
        s == Sign(d)
    IN  [k |-> "num", n |-> (s * n) \div g, d |-> (s * d) \div g]

Int2Rat(z) == [k |-> "num", n |-> z, d |-> 1]

NaN == [k |-> "nan", n |-> 0, d |-> 1]

None == [k |-> "none", n |-> 0, d |-> 1]

Inf(s) == [k |-> "inf", n |-> s, d |-> 1]

IsNum(x) == x.k = "num"

IsNaN(x) == x.k = "nan"

IsNone(x) == x.k = "none"

IsInf(x) == x.k = "inf"

\* IEEE addition on the modelled values (None never reaches it).
Add(a, b) ==
    IF IsNaN(a) \/ IsNaN(b) THEN NaN
    ELSE IF IsInf(a) /\ IsInf(b) THEN (IF a.n = b.n THEN a ELSE NaN)
    ELSE IF IsInf(a) THEN a
    ELSE IF IsInf(b) THEN b
    ELSE LET l == (a.d \div GCD(a.d, b.d)) * b.d
         IN  Rat(a.n * (l \div a.d) + b.n * (l \div b.d), l)

Neg(a) == IF IsNum(a) \/ IsInf(a) THEN [a EXCEPT !.n = -a.n] ELSE a

Sub(a, b) == Add(a, Neg(b))

Mul(a, b) ==
    IF IsNaN(a) \/ IsNaN(b) THEN NaN
    ELSE IF IsInf(a) \/ IsInf(b)
         THEN (IF Sign(a.n) * Sign(b.n) = 0 THEN NaN
               ELSE Inf(Sign(a.n) * Sign(b.n)))
    ELSE LET g1 == GCD(Abs(a.n), b.d)
             g2 == GCD(Abs(b.n), a.d)
         IN  Rat((a.n \div g1) * (b.n \div g2), (a.d \div g2) * (b.d \div g1))

\* numpy's float division: x/0 is +-inf, 0/0 is NaN (a warning, no exception).
NpDiv(a, b) ==
    IF IsNaN(a) \/ IsNaN(b) THEN NaN
    ELSE IF IsInf(a) /\ IsInf(b) THEN NaN
    ELSE IF IsInf(a) THEN Inf(a.n * (IF b.n < 0 THEN -1 ELSE 1))
    ELSE IF IsInf(b) THEN Int2Rat(0)
    ELSE IF b.n = 0 THEN (IF a.n = 0 THEN NaN ELSE Inf(Sign(a.n)))
    ELSE Mul(a, Rat(b.d * Sign(b.n), Abs(b.n)))

\* a <= b and a >= b on floats: every comparison with NaN is false.
Leq(a, b) ==
    IF IsNaN(a) \/ IsNaN(b) THEN FALSE
    ELSE IF IsInf(a) THEN (a.n = -1 \/ (IsInf(b) /\ b.n = 1))
    ELSE IF IsInf(b) THEN b.n = 1
    ELSE LET l == (a.d \div GCD(a.d, b.d)) * b.d
         IN  a.n * (l \div a.d) <= b.n * (l \div b.d)

Geq(a, b) == Leq(b, a)

Lt(a, b) ==
    IF IsNaN(a) \/ IsNaN(b) THEN FALSE ELSE Leq(a, b) /\ a # b

(***************************************************************************)
(* scipy.interpolate.interp1d(x, y, kind='linear',                         *)
(* fill_value="extrapolate").                                              *)
(***************************************************************************)
\* Stable insertion of the point p into the list s sorted by day.
RECURSIVE InsertByDay(_, _)
InsertByDay(s, p) ==
    IF s = <<>> THEN <<p>>
    ELSE IF p.day < Head(s).day THEN <<p>> \o s
    ELSE <<Head(s)>> \o InsertByDay(Tail(s), p)

\* argsort of the days (stable on arrays this small), applied to both arrays.
RECURSIVE SortByDay(_)
SortByDay(pts) ==
    IF pts = <<>> THEN <<>>
    ELSE InsertByDay(SortByDay(SubSeq(pts, 1, Len(pts) - 1)), pts[Len(pts)])

Zip(days, ys) == [j \in 1..Len(days) |-> [day |-> days[j], iv |-> ys[j]]]

DaysOf(pts) == [j \in 1..Len(pts) |-> pts[j].day]

IvsOf(pts) == [j \in 1..Len(pts) |-> pts[j].iv]

\* numpy.searchsorted(x, v), side 'left': the number of elements below v.
SearchSorted(x, v) == Cardinality({j \in 1..Len(x) : x[j] < v})

\* ndarray.clip(lo, hi) of one index: min(max(a, lo), hi).
Clip(a, lo, hi) ==
    LET m == IF a < lo THEN lo ELSE a
    IN  IF m > hi THEN hi ELSE m

\* interp1d._call_linear on sorted knots x (days) and y: the segment [lo, hi]
\* around x_new, slope = (y_hi - y_lo) / (x_hi - x_lo), and
\* y_new = slope * (x_new - x_lo) + y_lo.  Indices are 0-based in the source
\* (lo = hi - 1, and index -1 is the last element) and 1-based here.
Interp1dCall(x, y, x_new) ==
    LET n == Len(x)
        hi0 == Clip(SearchSorted(x, x_new), 1, n - 1)
        lo0 == hi0 - 1
        hi == hi0 + 1
        lo == IF lo0 < 0 THEN n ELSE lo0 + 1
        slope == NpDiv(Sub(y[hi], y[lo]), Int2Rat(x[hi] - x[lo]))
    IN  Add(Mul(slope, Int2Rat(x_new - x[lo])), y[lo])

(***************************************************************************)
(* build_term_structure.  The closure returned is the record               *)
(* [kind, days, ivs]: kind "spline" is term_spline over the knots, kind    *)
(* "constant" the lambda returning ivs[1], kind "raised" an exception.     *)
(***************************************************************************)
NoFn == [kind |-> "unbuilt", days |-> <<>>, ivs |-> <<>>]

RaisedFn == [kind |-> "raised", days |-> <<>>, ivs |-> <<>>]

\* The outcomes of interp1d's constructor by the number of knots: it raises
\* ValueError on no knot; on one knot it raises in the scipy releases that
\* require two entries and constructs in those that require one.
Interp1dInit(n) ==
    IF n = 0 THEN {"raised"}
    ELSE IF n = 1 THEN {"raised", "ok"}
    ELSE {"ok"}

\* trade_rec.build_term_structure: sort, no deduplication.
BuildTermStructureV1(days, ys) ==
    LET pts == SortByDay(Zip(days, ys))
    IN  { IF o = "raised" THEN RaisedFn
          ELSE [kind |-> "spline", days |-> DaysOf(pts), ivs |-> IvsOf(pts)]
          : o \in Interp1dInit(Len(pts)) }

\* unique_data[d] = iv over zip(days, ivs): the last iv of each day.
LastIv(days, ys, d) ==
    ys[CHOOSE j \in 1..Len(days) :
            /\ days[j] = d
            /\ \A m \in (j + 1)..Len(days) : days[m] # d]

\* sorted(unique_data.keys()) as a sequence.
RECURSIVE SortedSeq(_)
SortedSeq(S) ==
    IF S = {} THEN <<>>
    ELSE LET m == CHOOSE x \in S : \A y \in S : x <= y
         IN  <<m>> \o SortedSeq(S \ {m})

DefaultIv == Rat(2, 10)

\* trade_rec_v2.build_term_structure: deduplicate, sort, constant function
\* below two knots.
BuildTermStructureV2(days, ys) ==
    LET n == IF Len(days) < Len(ys) THEN Len(days) ELSE Len(ys)
        keys == SortedSeq({days[j] : j \in 1..n})
        vals == [j \in 1..Len(keys) |-> LastIv(SubSeq(days, 1, n), SubSeq(ys, 1, n), keys[j])]
    IN  IF Len(keys) < 2
        THEN { [kind |-> "constant", days |-> keys,
                ivs |-> <<IF Len(vals) > 0 THEN vals[1] ELSE DefaultIv>>] }
        ELSE IF \A j \in 1..Len(keys) : keys[j] = keys[1]
        THEN { [kind |-> "constant", days |-> keys, ivs |-> <<vals[1]>>] }
        ELSE { [kind |-> "spline", days |-> keys, ivs |-> vals] }

BuildTermStructure(v, days, ys) ==
    IF v = "v1" THEN BuildTermStructureV1(days, ys)
    ELSE BuildTermStructureV2(days, ys)

\* term_spline(dte) of both variants, and the constant lambda of v2.
TermSpline(fn, dte) ==
    IF fn.kind = "constant" THEN fn.ivs[1]
    ELSE IF dte < fn.days[1] THEN fn.ivs[1]
    ELSE IF dte > fn.days[Len(fn.days)] THEN fn.ivs[Len(fn.ivs)]
    ELSE Interp1dCall(fn.days, fn.ivs, dte)

(***************************************************************************)
(* Specification SpecTerm: build_term_structure applied to every list of   *)
(* at most MaxPoints points, and the closure queried.                      *)
(***************************************************************************)
\* No DataFrame returned yet.
NotReturned == [returned |-> FALSE, rows |-> <<>>]

Returned(rows) == [returned |-> TRUE, rows |-> rows]

\* The variables of the other specifications, at rest.
TSIdle ==
    /\ ts_variant = "v1"
    /\ ts_days = <<>>
    /\ ts_ivs = <<>>
    /\ ts_fn = NoFn
    /\ ts_dte = 0
    /\ ts_val = None

RTIdle ==
    /\ rt_rows = <<>>
    /\ rt_idx = 0
    /\ rt_result = NotReturned

NoSel == [status |-> "pending", call_idx |-> 0, put_idx |-> 0, atm_iv_value |-> None]

ATIdle ==
    /\ at_variant = "v1"
    /\ at_price = None
    /\ at_calls = <<>>
    /\ at_puts = <<>>
    /\ at_sel = NoSel

\* The result of compute_recommendation: kind "dict" is the dictionary
\* returned, "error" an error string returned (v1), "raised" the exception
\* raised by the outer handler (v1), "none" None returned (v2); err names
\* the step that ended the call.
Running ==
    [kind |-> "running", err |-> "", avg_volume |-> FALSE, iv30_rv30 |-> FALSE,
     ts_slope_0_45 |-> FALSE, expected_move |-> None]

NoHistory == [bars |-> 0, yz |-> NaN, mean_volume |-> NaN]

RecIdle ==
    /\ variant = "v1"
    /\ pc = "idle"
    /\ exp_dates = <<>>
    /\ options_chains = <<>>
    /\ underlying_price = None
    /\ strikes = <<>>
    /\ pos = 0
    /\ i = 0
    /\ dtes = <<>>
    /\ ivs = <<>>
    /\ straddle = None
    /\ call_bid = None
    /\ call_ask = None
    /\ put_bid = None
    /\ put_ask = None
    /\ term_spline = NoFn
    /\ ts_slope_0_45 = None
    /\ price_history = NoHistory
    /\ iv30_rv30 = None
    /\ avg_volume = None
    /\ result = Running
    /\ failed = {}
    /\ call_idx = 0
    /\ put_idx = 0
    /\ requests = <<>>

BTIdle ==
    /\ bt_variant = "ec1"
    /\ bt_tickers = <<>>
    /\ bt_idx = 0
    /\ bt_df = <<>>
    /\ bt_results = <<>>
    /\ bt_errors = {}
    /\ bt_end = "idle"
    /\ bt_out = <<>>
    /\ bt_data = <<>>

NotApplied == [done |-> FALSE, ok |-> FALSE, val |-> <<>>]

FnIdle ==
    /\ fn_name = "none"
    /\ fn_arg = <<>>
    /\ fn_out = NotApplied

WtIdle ==
    /\ wt_client = "none"
    /\ app_data = <<>>
    /\ data_received = FALSE
    /\ wt_end_req = 0
    /\ wt_pc = "off"
    /\ wt_call = 0
    /\ wt_clock = 0
    /\ wt_socket = <<>>
    /\ wt_unanswered = {}
    /\ wt_ret = <<>>

SbIdle ==
    /\ sb_fn = "none"
    /\ sb_answers = <<>>
    /\ sb_pc = "off"
    /\ sb_open = 0
    /\ sb_calls = 0
    /\ sb_path = "none"

ApIdle ==
    /\ ap_good = {}
    /\ ap_processed = {}
    /\ ap_run = 0
    /\ ap_pc = "off"
    /\ ap_emails = <<>>
    /\ ap_idx = 0
    /\ ap_parsed = {}
    /\ ap_files = {}
    /\ ap_marked = {}

DbIdle ==
    /\ db_sqlite = <<>>
    /\ db_postgres = {}
    /\ db_pg_aborted = FALSE
    /\ db_batches = <<>>

MaxPoints == 3

PointDays == {10, 30, 50}

PointIvs == {Rat(2, 10), Rat(4, 10), Rat(5, 10)}

QueryDtes == {5, 10, 20, 30, 45, 50, 100}

SeqsUpTo(S, n) == UNION {[1..m -> S] : m \in 0..n}

\* The closure has been queried (term_spline never returns None).
TSQueried == ~IsNone(ts_val)

TSInit ==
    /\ ts_variant \in Variants
    /\ \E m \in 0..MaxPoints :
          /\ ts_days \in [1..m -> PointDays]
          /\ ts_ivs \in [1..m -> PointIvs]
    /\ ts_fn = NoFn
    /\ ts_dte = 0
    /\ ts_val = None
    /\ RTIdle
    /\ ATIdle
    /\ RecIdle
    /\ BTIdle
    /\ FnIdle
    /\ WtIdle
    /\ SbIdle
    /\ ApIdle
    /\ DbIdle

TSBuild ==
    /\ ts_fn.kind = "unbuilt"
    /\ ts_fn' \in BuildTermStructure(ts_variant, ts_days, ts_ivs)
    /\ UNCHANGED <<ts_variant, ts_days, ts_ivs, ts_dte, ts_val>>
    /\ UNCHANGED notTS

TSQuery ==
    /\ ts_fn.kind \in {"spline", "constant"}
    /\ \E dte \in QueryDtes :
          /\ ts_dte' = dte
          /\ ts_val' = TermSpline(ts_fn, dte)
    /\ UNCHANGED <<ts_variant, ts_days, ts_ivs, ts_fn>>
    /\ UNCHANGED notTS

TSNext == TSBuild \/ TSQuery

SpecTerm == TSInit /\ [][TSNext]_vars

(***************************************************************************)
(* C3.  The function build_term_structure is specified to return: the      *)
(* knots are the points sorted by day, the last iv seen standing for a     *)
(* repeated day; below the first knot its iv, above the last knot its iv,  *)
(* between two adjacent knots the linear interpolation                     *)
(* v1 + (v2 - v1) * (dte - d1) / (d2 - d1).                                *)
(***************************************************************************)
DistinctDays(days) == {days[j] : j \in 1..Len(days)}

ClampedLinear(days, ys, dte) ==
    LET keys == SortedSeq(DistinctDays(days))
        iv(j) == LastIv(days, ys, keys[j])
        n == Len(keys)
    IN  IF dte < keys[1] THEN iv(1)
        ELSE IF dte > keys[n] THEN iv(n)
        ELSE LET a == CHOOSE j \in 1..n :
                        /\ keys[j] <= dte
                        /\ \A m \in 1..n : keys[m] <= dte => m <= j
             IN  IF keys[a] = dte THEN iv(a)
                 ELSE Add(iv(a),
                          Mul(Sub(iv(a + 1), iv(a)),
                              Rat(dte - keys[a], keys[a + 1] - keys[a])))

\* C3: for points with at least 2 distinct day counts, in both variants,
\* every value term(dte) returned is the clamped linear interpolation over
\* the deduplicated (last iv wins) sorted knots, and the build does not raise.
C3_TermIsClampedLinear ==
    Cardinality(DistinctDays(ts_days)) >= 2 =>
        /\ ts_fn.kind # "raised"
        /\ TSQueried => ts_val = ClampedLinear(ts_days, ts_ivs, ts_dte)

\* The case of C3 in trade_rec (v1): a repeated day count among the points,
\* and the closure queried.
C3_Witness ==
    /\ ts_variant = "v1"
    /\ Len(ts_days) > Cardinality(DistinctDays(ts_days))
    /\ Cardinality(DistinctDays(ts_days)) >= 2
    /\ TSQueried

(***************************************************************************)
(* The rating of earnings_calendar.get_earnings_for_date.  A cell of the   *)
(* columns avg_volume, iv30_rv30, ts_slope_0_45 is "True", "False" or      *)
(* "None" (the column's initial value, kept when no recommendation was     *)
(* copied into the row); the rating cell is "Go", "Consider" or "None".    *)
(***************************************************************************)
Flags == {"True", "False", "None"}

\* Python truth value of a flag cell.
Truthy(f) == f = "True"

\* RatingOf with the test for Go forgetting iv30_rv30.
RatingOfGoWithoutIv(row) ==
    IF ~Truthy(row.ts_slope_0_45) THEN "None"
    ELSE IF Truthy(row.avg_volume) \/ Truthy(row.iv30_rv30)
         THEN (IF Truthy(row.ts_slope_0_45) /\ Truthy(row.avg_volume)
               THEN "Go" ELSE "Consider")
         ELSE "None"

\* The body of the rating loop for one row: the rating written, "None" when
\* the row is skipped or gets none.
RatingOf(row) ==
    IF ~Truthy(row.ts_slope_0_45) THEN "None"
    ELSE IF Truthy(row.avg_volume) \/ Truthy(row.iv30_rv30)
         THEN (IF Truthy(row.ts_slope_0_45) /\ Truthy(row.avg_volume) /\ Truthy(row.iv30_rv30)
               THEN "Go" ELSE "Consider")
         ELSE "None"

\* df.dropna(subset=['rating']): the rows with a rating, in order.
DropNaRating(rows) == SelectSeq(rows, LAMBDA r : r.rating # "None")

\* filtered_df[columns_to_keep] (Company is not modelled).
KeepColumns(r) ==
    [Symbol |-> r.Symbol, rating |-> r.rating, avg_volume |-> r.avg_volume,
     iv30_rv30 |-> r.iv30_rv30, expected_move |-> r.expected_move]

\* The sort keys: rating_sort (0 for Go, 1 otherwise) and sort_move (the
\* float of the percentage string, NaN for "nan%", 0 when expected_move is
\* not a string).
RatingSort(r) == IF r.rating = "Go" THEN 0 ELSE 1

SortMove(r) ==
    IF IsNum(r.expected_move) \/ IsNaN(r.expected_move) THEN r.expected_move
    ELSE Int2Rat(0)

\* r sorts strictly before q: rating_sort ascending, then sort_move
\* descending, a NaN sort_move after every number (na_position='last').
SortsBefore(r, q) ==
    \/ RatingSort(r) < RatingSort(q)
    \/ RatingSort(r) = RatingSort(q) /\ ~IsNaN(SortMove(r)) /\ IsNaN(SortMove(q))
    \/ RatingSort(r) = RatingSort(q) /\ Lt(SortMove(q), SortMove(r))

RECURSIVE InsertRow(_, _)
InsertRow(s, r) ==
    IF s = <<>> THEN <<r>>
    ELSE IF SortsBefore(r, Head(s)) THEN <<r>> \o s
    ELSE <<Head(s)>> \o InsertRow(Tail(s), r)

\* sort_values(['rating_sort', 'sort_move'], ascending=[True, False]): a
\* stable sort on the two keys.
RECURSIVE SortValues(_)
SortValues(rows) ==
    IF rows = <<>> THEN <<>>
    ELSE InsertRow(SortValues(SubSeq(rows, 1, Len(rows) - 1)), rows[Len(rows)])

(***************************************************************************)
(* Specification SpecRating: the rating loop, the filter and the sort,     *)
(* over every DataFrame of at most MaxRows rows and every flag value.      *)
(***************************************************************************)
MaxRows == 2

Moves == {None, Rat(2, 1)}

\* The cells of a row that compute_recommendation fills, before the rating.
Cells == [avg_volume : Flags, iv30_rv30 : Flags, ts_slope_0_45 : Flags,
          expected_move : Moves]

\* Row j of df: the symbol stands for the row (symbols are told apart by j).
Row(j, c) ==
    [Symbol |-> j, avg_volume |-> c.avg_volume, iv30_rv30 |-> c.iv30_rv30,
     ts_slope_0_45 |-> c.ts_slope_0_45, expected_move |-> c.expected_move,
     rating |-> "None"]

RTInit ==
    /\ \E m \in 1..MaxRows : \E c \in [1..m -> Cells] :
          rt_rows = [j \in 1..m |-> Row(j, c[j])]
    /\ rt_idx = 1
    /\ rt_result = NotReturned
    /\ TSIdle
    /\ ATIdle
    /\ RecIdle
    /\ BTIdle
    /\ FnIdle
    /\ WtIdle
    /\ SbIdle
    /\ ApIdle
    /\ DbIdle

\* One iteration of "for idx, row in df.iterrows()" of the rating loop.
RTRate ==
    /\ ~rt_result.returned
    /\ rt_idx <= Len(rt_rows)
    /\ rt_rows' = [rt_rows EXCEPT ![rt_idx].rating = RatingOf(rt_rows[rt_idx])]
    /\ rt_idx' = rt_idx + 1
    /\ UNCHANGED rt_result
    /\ UNCHANGED notRT

\* After the loop: the filter, the sort and the return.
RTReturn ==
    /\ ~rt_result.returned
    /\ rt_idx > Len(rt_rows)
    /\ rt_result' = Returned(LET sorted == SortValues(DropNaRating(rt_rows))
                              IN  [j \in 1..Len(sorted) |-> KeepColumns(sorted[j])])
    /\ UNCHANGED <<rt_rows, rt_idx>>
    /\ UNCHANGED notRT

RTNext == RTRate \/ RTReturn

SpecRating == RTInit /\ [][RTNext]_vars

(***************************************************************************)
(* C1.                                                                     *)
(***************************************************************************)
\* The rating the returned DataFrame holds for the row of symbol j, "None"
\* when the row is absent from it.
ReturnedRating(j) ==
    IF \E m \in 1..Len(rt_result.rows) : rt_result.rows[m].Symbol = j
    THEN rt_result.rows[CHOOSE m \in 1..Len(rt_result.rows) :
                            rt_result.rows[m].Symbol = j].rating
    ELSE "None"

AllThreeTrue(r) ==
    r.ts_slope_0_45 = "True" /\ r.avg_volume = "True" /\ r.iv30_rv30 = "True"

SlopeAndExactlyOne(r) ==
    /\ r.ts_slope_0_45 = "True"
    /\ (r.avg_volume = "True") # (r.iv30_rv30 = "True")

\* C1: in batch mode, for every row and every combination of the three flags
\* (true, false or missing), the row is rated Go exactly when all three are
\* true, Consider exactly when slope_flag is true and exactly one of
\* avg_volume_flag and iv30_rv30_flag is true, and otherwise has no rating and
\* is absent from the returned results; a returned row occurs once.
C1_RatingByFlags ==
    rt_result.returned =>
        /\ \A j \in 1..Len(rt_rows) :
              /\ ReturnedRating(j) = "Go" <=> AllThreeTrue(rt_rows[j])
              /\ ReturnedRating(j) = "Consider" <=> SlopeAndExactlyOne(rt_rows[j])
              /\ (~AllThreeTrue(rt_rows[j]) /\ ~SlopeAndExactlyOne(rt_rows[j]))
                    => \A m \in 1..Len(rt_result.rows) : rt_result.rows[m].Symbol # j
        /\ \A m, q \in 1..Len(rt_result.rows) :
              rt_result.rows[m].Symbol = rt_result.rows[q].Symbol => m = q

\* A returned DataFrame holding a Go row and a Consider row whose iv30_rv30
\* is missing.
C1_Witness ==
    /\ rt_result.returned
    /\ \E j, q \in 1..Len(rt_rows) :
          /\ ReturnedRating(j) = "Go"
          /\ ReturnedRating(q) = "Consider"
          /\ rt_rows[q].iv30_rv30 = "None"

(***************************************************************************)
(* The ATM selection.  A quote is a row of chain.calls / chain.puts (v1)   *)
(* or an Option contract with its ticker (v2): [strike, impliedVolatility, *)
(* bid, ask].  Lists are 1-based here; index 0 stands for "no row".        *)
(***************************************************************************)
\* |strike - price|, a column cell of call_diffs / put_diffs.
AbsDiff(strike, price) ==
    LET diff == Sub(Int2Rat(strike), price)
    IN  IF IsNum(diff) /\ diff.n < 0 THEN Neg(diff) ELSE diff

\* IdxMin taking the last of several minimal rows.
IdxMinLast(quotes, price) ==
    LET valid == {j \in 1..Len(quotes) : IsNum(AbsDiff(quotes[j].strike, price))}
    IN  IF valid = {} THEN 0
        ELSE CHOOSE j \in valid :
                \A m \in valid :
                    /\ Leq(AbsDiff(quotes[j].strike, price), AbsDiff(quotes[m].strike, price))
                    /\ (AbsDiff(quotes[m].strike, price) = AbsDiff(quotes[j].strike, price)
                            => m <= j)

\* Series.idxmin() of the distances: the first row holding the minimum, NaN
\* skipped; 0 when there is no such row (idxmin raises, or returns NaN and
\* the .loc lookup raises).
IdxMin(quotes, price) ==
    LET valid == {j \in 1..Len(quotes) : IsNum(AbsDiff(quotes[j].strike, price))}
    IN  IF valid = {} THEN 0
        ELSE CHOOSE j \in valid :
                \A m \in valid :
                    /\ Leq(AbsDiff(quotes[j].strike, price), AbsDiff(quotes[m].strike, price))
                    /\ (AbsDiff(quotes[m].strike, price) = AbsDiff(quotes[j].strike, price)
                            => j <= m)

\* v2: the put contract is built with the strike of the ATM call; its row
\* among the puts (0: qualifyContracts finds no such contract).
RowAtStrike(quotes, strike) ==
    IF \E j \in 1..Len(quotes) : quotes[j].strike = strike
    THEN CHOOSE j \in 1..Len(quotes) :
            /\ quotes[j].strike = strike
            /\ \A m \in 1..Len(quotes) : quotes[m].strike = strike => j <= m
    ELSE 0

\* atm_iv_value = (call_iv + put_iv) / 2.0
AtmIvValue(call_iv, put_iv) == Mul(Add(call_iv, put_iv), Rat(1, 2))

Sel(st, ci, pi, iv) ==
    [status |-> st, call_idx |-> ci, put_idx |-> pi, atm_iv_value |-> iv]

\* SelectATMV1 failing on an empty side instead of skipping the expiration.
SelectATMV1RaiseOnEmpty(calls, puts, price) ==
    IF calls = <<>> \/ puts = <<>> THEN Sel("raised", 0, 0, None)
    ELSE LET ci == IdxMin(calls, price)
             pi == IdxMin(puts, price)
         IN  IF ci = 0 \/ pi = 0 THEN Sel("raised", 0, 0, None)
             ELSE Sel("selected", ci, pi,
                      AtmIvValue(calls[ci].impliedVolatility, puts[pi].impliedVolatility))

\* trade_rec: skip an expiration with an empty side; idxmin on each side.
SelectATMV1(calls, puts, price) ==
    IF calls = <<>> \/ puts = <<>> THEN Sel("skipped", 0, 0, None)
    ELSE LET ci == IdxMin(calls, price)
             pi == IdxMin(puts, price)
         IN  IF ci = 0 \/ pi = 0 THEN Sel("raised", 0, 0, None)
             ELSE Sel("selected", ci, pi,
                      AtmIvValue(calls[ci].impliedVolatility, puts[pi].impliedVolatility))

\* trade_rec_v2: idxmin over the call contracts, the put at the same strike;
\* a missing contract or missing model greeks raise.
SelectATMV2(calls, puts, price) ==
    LET ci == IdxMin(calls, price)
        pi == IF ci = 0 THEN 0 ELSE RowAtStrike(puts, calls[ci].strike)
    IN  IF ci = 0 \/ pi = 0 THEN Sel("raised", 0, 0, None)
        ELSE IF IsNone(calls[ci].impliedVolatility) \/ IsNone(puts[pi].impliedVolatility)
        THEN Sel("raised", ci, pi, None)
        ELSE Sel("selected", ci, pi,
                 AtmIvValue(calls[ci].impliedVolatility, puts[pi].impliedVolatility))

SelectATM(v, calls, puts, price) ==
    IF v = "v1" THEN SelectATMV1(calls, puts, price)
    ELSE SelectATMV2(calls, puts, price)

(***************************************************************************)
(* Specification SpecATM: the selection applied to every pair of quote     *)
(* lists of at most MaxQuotes rows.                                        *)
(***************************************************************************)
MaxQuotes == 2

QuoteStrikes == {95, 105, 110}

QuoteIvs == {Rat(2, 10), Rat(3, 10)}

Prices == {Int2Rat(100), Rat(215, 2), NaN}

Quote(strike, iv, bid, ask) ==
    [strike |-> strike, impliedVolatility |-> iv, bid |-> bid, ask |-> ask]

ATInit ==
    /\ at_variant \in Variants
    /\ at_price \in Prices
    /\ \E m \in 0..MaxQuotes : \E ks \in [1..m -> QuoteStrikes], vs \in [1..m -> QuoteIvs] :
          at_calls = [j \in 1..m |-> Quote(ks[j], vs[j], None, None)]
    /\ IF at_variant = "v1"
       THEN \E m \in 0..MaxQuotes : \E ks \in [1..m -> QuoteStrikes] :
               at_puts = [j \in 1..m |-> Quote(ks[j], Rat(4, 10), None, None)]
       ELSE at_puts = [j \in 1..Len(at_calls) |->
                          Quote(at_calls[j].strike, Rat(4, 10), None, None)]
    /\ at_sel = NoSel
    /\ TSIdle
    /\ RTIdle
    /\ RecIdle
    /\ BTIdle
    /\ FnIdle
    /\ WtIdle
    /\ SbIdle
    /\ ApIdle
    /\ DbIdle

ATSelect ==
    /\ at_sel.status = "pending"
    /\ at_sel' = SelectATM(at_variant, at_calls, at_puts, at_price)
    /\ UNCHANGED <<at_variant, at_price, at_calls, at_puts>>
    /\ UNCHANGED notAT

ATNext == ATSelect

SpecATM == ATInit /\ [][ATNext]_vars

(***************************************************************************)
(* C9.                                                                     *)
(***************************************************************************)
\* Row j of quotes is at minimum distance to the price and the first such row.
FirstNearest(quotes, j, price) ==
    /\ j \in 1..Len(quotes)
    /\ \A m \in 1..Len(quotes) :
          /\ Leq(AbsDiff(quotes[j].strike, price), AbsDiff(quotes[m].strike, price))
          /\ m < j => AbsDiff(quotes[m].strike, price) # AbsDiff(quotes[j].strike, price)

\* C9: for an expiration with non-empty calls and puts (and a numeric price)
\* a selection is made; the call and the put selected are each a row of
\* minimum |strike - price| on their side, the first such row in the
\* provider's order; the ATM IV is the mean of the two rows' implied
\* volatilities.
C9_AtmIsFirstNearest ==
    /\ (at_sel.status = "pending" \/ at_calls = <<>> \/ at_puts = <<>> \/ ~IsNum(at_price))
          \/ at_sel.status = "selected"
    /\ at_sel.status = "selected" =>
          /\ FirstNearest(at_calls, at_sel.call_idx, at_price)
          /\ FirstNearest(at_puts, at_sel.put_idx, at_price)
          /\ Add(at_sel.atm_iv_value, at_sel.atm_iv_value) =
                Add(at_calls[at_sel.call_idx].impliedVolatility,
                    at_puts[at_sel.put_idx].impliedVolatility)

\* A selection among calls of which two are equally near the price, the
\* nearer-listed one chosen.
C9_Witness ==
    /\ at_sel.status = "selected"
    /\ \E m \in 1..Len(at_calls) :
          /\ m > at_sel.call_idx
          /\ at_calls[m].strike # at_calls[at_sel.call_idx].strike
          /\ AbsDiff(at_calls[m].strike, at_price) =
                AbsDiff(at_calls[at_sel.call_idx].strike, at_price)

(***************************************************************************)
(* compute_recommendation: the helpers of the pipeline.  A date is the     *)
(* number of days from today to it (today is 0).                           *)
(***************************************************************************)
CutoffDays == 45

\* FilterDates keeping a leading date equal to today.
FilterDatesKeepToday(dates) ==
    LET sorted_dates == SortedSeq(dates)
        far == {j \in 1..Len(sorted_dates) : sorted_dates[j] >= CutoffDays}
    IN  IF far = {} THEN [ok |-> FALSE, arr |-> <<>>]
        ELSE LET first == CHOOSE j \in far : \A m \in far : j <= m
             IN  [ok |-> TRUE, arr |-> SubSeq(sorted_dates, 1, first)]

\* filter_dates(dates): the sorted dates up to and including the first one at
\* least 45 days out, without a leading date equal to today; ok is FALSE when
\* it raises (no date 45 days or more in the future).
FilterDates(dates) ==
    LET sorted_dates == SortedSeq(dates)
        far == {j \in 1..Len(sorted_dates) : sorted_dates[j] >= CutoffDays}
    IN  IF far = {} THEN [ok |-> FALSE, arr |-> <<>>]
        ELSE LET first == CHOOSE j \in far : \A m \in far : j <= m
                 arr == SubSeq(sorted_dates, 1, first)
             IN  [ok |-> TRUE, arr |-> IF arr[1] = 0 THEN Tail(arr) ELSE arr]

MiddleWindow == 6

\* MiddleSix removing the extra element of an odd excess from the front.
MiddleSixExtraFromFront(lst) ==
    IF Len(lst) <= MiddleWindow THEN lst
    ELSE LET excess == Len(lst) - MiddleWindow
             back_remove == excess \div 2
             front_remove == excess - back_remove
         IN  SubSeq(lst, front_remove + 1, Len(lst) - back_remove)

\* middle_six(lst)
MiddleSix(lst) ==
    IF Len(lst) <= MiddleWindow THEN lst
    ELSE LET excess == Len(lst) - MiddleWindow
             front_remove == excess \div 2
             back_remove == excess - front_remove
         IN  SubSeq(lst, front_remove + 1, Len(lst) - back_remove)

\* [strike for strike in chain.strikes if 0.8 * current_price < strike < current_price * 1.2]
InBand(lst, price) ==
    SelectSeq(lst, LAMBDA x : /\ Lt(Mul(Rat(8, 10), price), Int2Rat(x))
                              /\ Lt(Int2Rat(x), Mul(price, Rat(12, 10))))

\* v2: sorted(exp for exp in chain.expirations if strptime(exp) < today_plus_45),
\* where today_plus_45 carries the time of day: an expiration 45 days out is
\* kept unless the call runs at midnight sharp.
ExpirationsBefore45(exps, midnight) ==
    SortedSeq({e \in exps : e < CutoffDays \/ (e = CutoffDays /\ ~midnight)})

\* (bid + ask) / 2
Mid(bid, ask) == Mul(Add(bid, ask), Rat(1, 2))

\* v1, at i == 0: a mid is None when its bid or ask "is None"; the straddle is
\* assigned only when both mids are not None.
StraddleV1(old, cb, ca, pb, pa) ==
    LET call_mid == IF ~IsNone(cb) /\ ~IsNone(ca) THEN Mid(cb, ca) ELSE None
        put_mid == IF ~IsNone(pb) /\ ~IsNone(pa) THEN Mid(pb, pa) ELSE None
    IN  IF ~IsNone(call_mid) /\ ~IsNone(put_mid) THEN Add(call_mid, put_mid) ELSE old

\* v2, at i == 0: no test at all.
StraddleV2(cb, ca, pb, pa) == Add(Mid(cb, ca), Mid(pb, pa))

\* "if i == 0" with the test dropped: every expiration sets the straddle.
StraddleTurnAlways(n) == n >= 0

\* if i == 0
StraddleTurn(n) == n = 0

\* round(x, 2) on exact values: to the nearest hundredth, ties to even.
Round2(x) ==
    IF ~IsNum(x) THEN x
    ELSE LET num == x.n * 100
             q == num \div x.d
             r == num - q * x.d
             up == \/ 2 * r > x.d
                   \/ 2 * r = x.d /\ q % 2 = 1
         IN  Rat(IF up THEN q + 1 ELSE q, 100)

\* Python truth value of the straddle: None and 0.0 are false, NaN is true.
StraddleTruthy(x) == ~IsNone(x) /\ ~(IsNum(x) /\ x.n = 0)

\* expected_move = str(round(straddle / price * 100, 2)) + "%" if straddle
\* else None.  The string is modelled by its number; NaN stands for "nan%".
ExpectedMove(x, price) ==
    IF StraddleTruthy(x) THEN Round2(Mul(NpDiv(x, price), Int2Rat(100))) ELSE None

Window == 30

\* yang_zhang(price_data): NaN below window + 1 bars; otherwise the estimate,
\* which the model takes from the history record (yz) instead of computing
\* logarithms and square roots.
YangZhang(h) == IF h.bars < Window + 1 THEN NaN ELSE h.yz

\* price_history['Volume'].rolling(30).mean().dropna() is empty below 30 bars,
\* and .iloc[-1] then raises IndexError.
RollingMeanRaises(h) == h.bars < Window

AvgVolumeThreshold == 1500000

\* The three comparisons with strict inequalities.
FlagsStrict(av, ratio, slope) ==
    [avg_volume |-> Lt(Int2Rat(AvgVolumeThreshold), av),
     iv30_rv30 |-> Lt(Rat(125, 100), ratio),
     ts_slope_0_45 |-> Lt(slope, Rat(-406, 100000))]

\* avg_volume >= 1500000, iv30_rv30 >= 1.25, ts_slope_0_45 <= -0.00406
ThresholdFlags(av, ratio, slope) ==
    [avg_volume |-> Geq(av, Int2Rat(AvgVolumeThreshold)),
     iv30_rv30 |-> Geq(ratio, Rat(125, 100)),
     ts_slope_0_45 |-> Leq(slope, Rat(-406, 100000))]

Ended(kind, err) == [Running EXCEPT !.kind = kind, !.err = err]

\* An exception reaching the outer handler: v1 re-raises it as Exception,
\* v2 prints it and returns None.
Crash(v, err) == Ended(IF v = "v1" THEN "raised" ELSE "none", err)

\* The dictionary returned.
Dict(flags, move) ==
    [kind |-> "dict", err |-> "", avg_volume |-> flags.avg_volume,
     iv30_rv30 |-> flags.iv30_rv30, ts_slope_0_45 |-> flags.ts_slope_0_45,
     expected_move |-> move]

\* v2: term_spline = interp1d(dtes, ivs, kind='linear', fill_value="extrapolate")
RawInterp(days, ys) == [kind |-> "interp1d", days |-> days, ivs |-> ys]

\* term_spline(dte) as compute_recommendation calls it.
Term(fn, dte) ==
    IF fn.kind = "interp1d" THEN Interp1dCall(fn.days, fn.ivs, dte)
    ELSE TermSpline(fn, dte)

(***************************************************************************)
(* The provider's answers the pipeline is run on.                          *)
(***************************************************************************)
ExpDays == {0, 15, 30, 45, 52}

\* A chain with one strike, 100, on both sides.
Flat(iv, cb, pa) ==
    [calls |-> <<Quote(100, iv, cb, Int2Rat(2))>>,
     puts |-> <<Quote(100, iv, Int2Rat(2), pa)>>]

\* Calls and puts listed in opposite orders, 95 and 105 equally near 100.
Tied ==
    [calls |-> <<Quote(95, Rat(2, 10), Int2Rat(6), Int2Rat(8)),
                 Quote(105, Rat(4, 10), Int2Rat(1), Int2Rat(1))>>,
     puts |-> <<Quote(105, Rat(3, 10), Int2Rat(5), Int2Rat(7)),
                Quote(95, Rat(3, 10), Int2Rat(1), Int2Rat(1))>>]

AtmIvs == {Rat(25, 100), Rat(1891, 10000), Rat(19, 100)}

Chains ==
    {Flat(iv, Int2Rat(1), Int2Rat(3)) : iv \in AtmIvs}
    \cup {Flat(Rat(25, 100), NaN, Int2Rat(3)), Flat(Rat(25, 100), Int2Rat(1), None)}
    \cup {[calls |-> <<>>, puts |-> Tied.puts], [calls |-> Tied.calls, puts |-> <<>>]}
    \cup {Tied}

\* v2: the tickers of the ATM call and put of one expiration; an
\* impliedVolatility of None stands for missing model greeks.
Tickers ==
    {[call |-> Quote(0, iv, Int2Rat(1), Int2Rat(2)),
      put |-> Quote(0, iv, Int2Rat(2), Int2Rat(3))] : iv \in AtmIvs \cup {None}}
    \cup {[call |-> Quote(0, Rat(25, 100), NaN, Int2Rat(2)),
           put |-> Quote(0, Rat(25, 100), Int2Rat(2), Int2Rat(3))]}

\* v2: the contracts built from the candidate strikes, each with the tickers
\* the provider answers for this expiration.
ContractsOf(ks, q) ==
    [j \in 1..Len(ks) |-> Quote(ks[j], q.impliedVolatility, q.bid, q.ask)]

ChainStrikes ==
    {<<>>, <<100>>, <<70, 95, 105, 130>>, <<85, 90, 95, 99, 105, 110, 115, 119>>}

UnderlyingPrices == {Int2Rat(100), NaN}

MeanVolumes == {Int2Rat(AvgVolumeThreshold - 1), Int2Rat(AvgVolumeThreshold)}

RealizedVols == {Rat(2, 10), Rat(25, 100)}

Histories ==
    {[bars |-> 20, yz |-> NaN, mean_volume |-> NaN]}
    \cup {[bars |-> Window, yz |-> NaN, mean_volume |-> v] : v \in MeanVolumes}
    \cup {[bars |-> Window + 1, yz |-> r, mean_volume |-> v] :
             r \in RealizedVols, v \in MeanVolumes}

(***************************************************************************)
(* Specification SpecRec: one call of compute_recommendation, of trade_rec *)
(* (v1) or of trade_rec_v2 (v2), step by step; pc is the position reached. *)
(***************************************************************************)
\* One provider request: 'options', 'chain' (of the expiration exp), 'price'
\* or 'history'.
Req(kind, e) == [kind |-> kind, exp |-> e]

\* The chain loop asking again for the same expiration.
NextPosRetry(p) == p

\* for exp_date in exp_dates: the next expiration, whatever the fetch gave.
NextPos(p) == p + 1

RecInit ==
    /\ variant \in Variants
    /\ pc = "start"
    /\ exp_dates = <<>>
    /\ options_chains = <<>>
    /\ underlying_price = None
    /\ strikes = <<>>
    /\ pos = 0
    /\ i = 0
    /\ dtes = <<>>
    /\ ivs = <<>>
    /\ straddle = None
    /\ call_bid = None
    /\ call_ask = None
    /\ put_bid = None
    /\ put_ask = None
    /\ term_spline = NoFn
    /\ ts_slope_0_45 = None
    /\ price_history = NoHistory
    /\ iv30_rv30 = None
    /\ avg_volume = None
    /\ result = Running
    /\ failed = {}
    /\ call_idx = 0
    /\ put_idx = 0
    /\ requests = <<>>
    /\ TSIdle
    /\ RTIdle
    /\ ATIdle
    /\ BTIdle
    /\ FnIdle
    /\ WtIdle
    /\ SbIdle
    /\ ApIdle
    /\ DbIdle

\* trade_rec, lines 109-123: the option dates of the stock, filtered.
RecStartV1 ==
    /\ pc = "start"
    /\ variant = "v1"
    /\ requests' = Append(requests, Req("options", 0))
    /\ \E opts \in SUBSET ExpDays :
          LET f == FilterDates(opts)
          IN  IF opts = {}
              THEN /\ result' = Ended("error", "options")
                   /\ pc' = "done"
                   /\ UNCHANGED <<exp_dates, pos>>
              ELSE IF ~f.ok
              THEN /\ result' = Ended("error", "dates")
                   /\ pc' = "done"
                   /\ UNCHANGED <<exp_dates, pos>>
              ELSE /\ exp_dates' = f.arr
                   /\ pos' = 1
                   /\ pc' = "chains"
                   /\ UNCHANGED result
    /\ UNCHANGED <<notRec, variant, options_chains, underlying_price, strikes,
                   i, dtes, ivs, straddle, call_bid, call_ask, put_bid,
                   put_ask, term_spline, ts_slope_0_45, price_history,
                   iv30_rv30, avg_volume, failed,
                   call_idx, put_idx>>

\* trade_rec, lines 126-130: one turn of the loop fetching the chains; a
\* fetch that raises is logged and the loop goes on.
RecFetchChain ==
    /\ pc = "chains"
    /\ pos <= Len(exp_dates)
    /\ \/ /\ failed' = failed \cup {exp_dates[pos]}
          /\ UNCHANGED options_chains
       \/ /\ \E c \in Chains :
                options_chains' =
                    Append(options_chains, [exp_date |-> exp_dates[pos], chain |-> c])
          /\ UNCHANGED failed
    /\ requests' = Append(requests, Req("chain", exp_dates[pos]))
    /\ pos' = NextPos(pos)
    /\ UNCHANGED <<notRec, variant, pc, exp_dates, underlying_price, strikes,
                   i, dtes, ivs, straddle, call_bid, call_ask, put_bid,
                   put_ask, term_spline, ts_slope_0_45, price_history,
                   iv30_rv30, avg_volume, result,
                   call_idx, put_idx>>

\* trade_rec, lines 132-145: after the loop, no chain at all is an error;
\* then the underlying price, which may be missing.
RecPrice ==
    /\ pc = "chains"
    /\ pos > Len(exp_dates)
    /\ requests' = IF options_chains = <<>> THEN requests
                   ELSE Append(requests, Req("price", 0))
    /\ IF options_chains = <<>>
       THEN /\ result' = Ended("error", "chains")
            /\ pc' = "done"
            /\ UNCHANGED <<underlying_price, pos, i>>
       ELSE \/ /\ result' = Ended("error", "price")
               /\ pc' = "done"
               /\ UNCHANGED <<underlying_price, pos, i>>
            \/ /\ \E p \in UnderlyingPrices : underlying_price' = p
               /\ pos' = 1
               /\ i' = 0
               /\ pc' = "atm"
               /\ UNCHANGED result
    /\ UNCHANGED <<notRec, variant, exp_dates, options_chains, strikes, dtes,
                   ivs, straddle, call_bid, call_ask, put_bid, put_ask,
                   term_spline, ts_slope_0_45, price_history, iv30_rv30,
                   avg_volume, failed,
                   call_idx, put_idx>>

\* trade_rec, lines 146-183 with 188-195: one turn of the loop over the
\* fetched chains.
RecAtmV1 ==
    /\ pc = "atm"
    /\ variant = "v1"
    /\ pos <= Len(options_chains)
    /\ LET calls == options_chains[pos].chain.calls
           puts == options_chains[pos].chain.puts
           sel == SelectATMV1(calls, puts, underlying_price)
       IN  /\ call_idx' = IF sel.status = "selected" THEN sel.call_idx ELSE call_idx
           /\ put_idx' = IF sel.status = "selected" THEN sel.put_idx ELSE put_idx
           /\ IF sel.status = "skipped"
              THEN /\ pos' = pos + 1
                   /\ UNCHANGED <<pc, i, dtes, ivs, straddle, call_bid, call_ask,
                                  put_bid, put_ask, result>>
              ELSE IF sel.status = "raised"
              THEN /\ result' = Crash(variant, "atm")
                   /\ pc' = "done"
                   /\ UNCHANGED <<pos, i, dtes, ivs, straddle, call_bid, call_ask,
                                  put_bid, put_ask>>
              ELSE /\ dtes' = Append(dtes, options_chains[pos].exp_date)
                   /\ ivs' = Append(ivs, sel.atm_iv_value)
                   /\ IF StraddleTurn(i)
                      THEN /\ call_bid' = calls[sel.call_idx].bid
                           /\ call_ask' = calls[sel.call_idx].ask
                           /\ put_bid' = puts[sel.put_idx].bid
                           /\ put_ask' = puts[sel.put_idx].ask
                           /\ straddle' = StraddleV1(straddle, call_bid', call_ask',
                                                     put_bid', put_ask')
                      ELSE UNCHANGED <<straddle, call_bid, call_ask, put_bid, put_ask>>
                   /\ i' = i + 1
                   /\ pos' = pos + 1
                   /\ UNCHANGED <<pc, result>>
    /\ UNCHANGED <<notRec, variant, exp_dates, options_chains,
                   underlying_price, strikes, term_spline, ts_slope_0_45,
                   price_history, iv30_rv30, avg_volume, failed,
                   requests>>

\* trade_rec, lines 185-199: no ATM IV at all is an error; then the term
\* structure and its slope.  The difference of the two term values is a
\* Python float when both come from the spline, so a zero denominator raises
\* ZeroDivisionError.
RecTermV1 ==
    /\ pc = "atm"
    /\ variant = "v1"
    /\ pos > Len(options_chains)
    /\ IF dtes = <<>>
       THEN /\ result' = Ended("error", "atm_iv")
            /\ pc' = "done"
            /\ UNCHANGED <<term_spline, ts_slope_0_45>>
       ELSE \E fn \in BuildTermStructure(variant, dtes, ivs) :
               IF fn.kind = "raised"
               THEN /\ result' = Crash(variant, "term")
                    /\ pc' = "done"
                    /\ UNCHANGED <<term_spline, ts_slope_0_45>>
               ELSE IF CutoffDays - dtes[1] = 0
               THEN /\ term_spline' = fn
                    /\ result' = Crash(variant, "slope")
                    /\ pc' = "done"
                    /\ UNCHANGED ts_slope_0_45
               ELSE /\ term_spline' = fn
                    /\ ts_slope_0_45' =
                          NpDiv(Sub(Term(fn, CutoffDays), Term(fn, dtes[1])),
                                Int2Rat(CutoffDays - dtes[1]))
                    /\ pc' = "history"
                    /\ UNCHANGED result
    /\ UNCHANGED <<notRec, variant, exp_dates, options_chains,
                   underlying_price, strikes, pos, i, dtes, ivs, straddle,
                   call_bid, call_ask, put_bid, put_ask, price_history,
                   iv30_rv30, avg_volume, failed,
                   call_idx, put_idx, requests>>

\* trade_rec_v2, lines 160-195: the stock, its price, the candidate strikes
\* and the expirations less than 45 days out; any provider failure, and fewer
\* than two expirations, end the call in the outer handler.
RecStartV2 ==
    /\ pc = "start"
    /\ variant = "v2"
    /\ \/ /\ result' = Crash(variant, "start")
          /\ pc' = "done"
          /\ UNCHANGED <<underlying_price, strikes, exp_dates, pos, i>>
       \/ \E p \in UnderlyingPrices, ks \in ChainStrikes,
             exps \in SUBSET ExpDays, midnight \in BOOLEAN :
             /\ underlying_price' = p
             /\ strikes' = MiddleSix(InBand(ks, p))
             /\ exp_dates' = ExpirationsBefore45(exps, midnight)
             /\ IF Len(exp_dates') < 2
                THEN /\ result' = Crash(variant, "expirations")
                     /\ pc' = "done"
                     /\ UNCHANGED <<pos, i>>
                ELSE /\ pos' = 1
                     /\ i' = 0
                     /\ pc' = "atm"
                     /\ UNCHANGED result
    /\ UNCHANGED <<notRec, variant, options_chains, dtes, ivs, straddle,
                   call_bid, call_ask, put_bid, put_ask, term_spline,
                   ts_slope_0_45, price_history, iv30_rv30, avg_volume, failed,
                   call_idx, put_idx, requests>>

\* trade_rec_v2, lines 203-239: one turn of the loop over the expirations.
\* Nothing in the loop catches: a contract that does not qualify, a ticker
\* request that fails and missing model greeks all reach the outer handler.
RecAtmV2 ==
    /\ pc = "atm"
    /\ variant = "v2"
    /\ pos <= Len(exp_dates)
    /\ \/ /\ strikes # <<>>
          /\ failed' = failed \cup {exp_dates[pos]}
          /\ result' = Crash(variant, "expiration")
          /\ pc' = "done"
          /\ UNCHANGED <<pos, i, dtes, ivs, straddle, call_bid, call_ask,
                         put_bid, put_ask, call_idx, put_idx>>
       \/ \E t \in Tickers :
             LET calls == ContractsOf(strikes, t.call)
                 puts == ContractsOf(strikes, t.put)
                 sel == SelectATMV2(calls, puts, underlying_price)
             IN  /\ call_idx' = IF sel.status = "selected" THEN sel.call_idx ELSE call_idx
                 /\ put_idx' = IF sel.status = "selected" THEN sel.put_idx ELSE put_idx
                 /\ IF sel.status = "raised"
                    THEN /\ result' = Crash(variant, IF sel.call_idx = 0 THEN "atm"
                                                     ELSE "expiration")
                         /\ failed' = IF sel.call_idx = 0 THEN failed
                                      ELSE failed \cup {exp_dates[pos]}
                         /\ pc' = "done"
                         /\ UNCHANGED <<pos, i, dtes, ivs, straddle, call_bid,
                                        call_ask, put_bid, put_ask>>
                    ELSE /\ IF StraddleTurn(i)
                            THEN /\ call_bid' = calls[sel.call_idx].bid
                                 /\ call_ask' = calls[sel.call_idx].ask
                                 /\ put_bid' = puts[sel.put_idx].bid
                                 /\ put_ask' = puts[sel.put_idx].ask
                                 /\ straddle' = StraddleV2(call_bid', call_ask',
                                                           put_bid', put_ask')
                            ELSE UNCHANGED <<straddle, call_bid, call_ask, put_bid,
                                             put_ask>>
                         /\ dtes' = Append(dtes, exp_dates[pos])
                         /\ ivs' = Append(ivs, sel.atm_iv_value)
                         /\ i' = i + 1
                         /\ pos' = pos + 1
                         /\ UNCHANGED <<pc, result, failed>>
    /\ UNCHANGED <<notRec, variant, exp_dates, options_chains,
                   underlying_price, strikes, term_spline, ts_slope_0_45,
                   price_history, iv30_rv30, avg_volume,
                   requests>>

\* trade_rec_v2, lines 241-242: the raw interp1d and the slope, in numpy
\* arithmetic: a zero denominator gives inf or NaN, no exception.
RecTermV2 ==
    /\ pc = "atm"
    /\ variant = "v2"
    /\ pos > Len(exp_dates)
    /\ \E o \in Interp1dInit(Len(dtes)) :
          IF o = "raised"
          THEN /\ result' = Crash(variant, "term")
               /\ pc' = "done"
               /\ UNCHANGED <<term_spline, ts_slope_0_45>>
          ELSE /\ term_spline' = RawInterp(dtes, ivs)
               /\ ts_slope_0_45' =
                     NpDiv(Sub(Term(term_spline', CutoffDays), Term(term_spline', dtes[1])),
                           Int2Rat(CutoffDays - dtes[1]))
               /\ pc' = "history"
               /\ UNCHANGED result
    /\ UNCHANGED <<notRec, variant, exp_dates, options_chains,
                   underlying_price, strikes, pos, i, dtes, ivs, straddle,
                   call_bid, call_ask, put_bid, put_ask, price_history,
                   iv30_rv30, avg_volume, failed,
                   call_idx, put_idx, requests>>

\* trade_rec lines 201-208, trade_rec_v2 lines 244-256: the price history,
\* iv30_rv30, the average volume, the expected move and the dictionary.
RecHistory ==
    /\ pc = "history"
    /\ \/ /\ result' = Crash(variant, "history")
          /\ UNCHANGED <<price_history, iv30_rv30, avg_volume>>
       \/ \E h \in Histories :
             /\ price_history' = h
             /\ iv30_rv30' = NpDiv(Term(term_spline, Window), YangZhang(h))
             /\ IF RollingMeanRaises(h)
                THEN /\ result' = Crash(variant, "avg_volume")
                     /\ UNCHANGED avg_volume
                ELSE /\ avg_volume' = h.mean_volume
                     /\ result' = Dict(ThresholdFlags(avg_volume', iv30_rv30', ts_slope_0_45),
                                       ExpectedMove(straddle, underlying_price))
    /\ requests' = IF variant = "v1" THEN Append(requests, Req("history", 0))
                   ELSE requests
    /\ pc' = "done"
    /\ UNCHANGED <<notRec, variant, exp_dates, options_chains,
                   underlying_price, strikes, pos, i, dtes, ivs, straddle,
                   call_bid, call_ask, put_bid, put_ask, term_spline,
                   ts_slope_0_45, failed,
                   call_idx, put_idx>>

RecNext ==
    \/ RecStartV1
    \/ RecFetchChain
    \/ RecPrice
    \/ RecAtmV1
    \/ RecTermV1
    \/ RecStartV2
    \/ RecAtmV2
    \/ RecTermV2
    \/ RecHistory

SpecRec == RecInit /\ [][RecNext]_vars

(***************************************************************************)
(* Properties of compute_recommendation, checked on SpecRec.               *)
(***************************************************************************)
AtLeast(x, tn, td) == (IsNum(x) /\ x.n * td >= tn * x.d) \/ (IsInf(x) /\ x.n = 1)

AtMost(x, tn, td) == (IsNum(x) /\ x.n * td <= tn * x.d) \/ (IsInf(x) /\ x.n = -1)

\* C2: in the dictionary returned, the avg_volume flag is true exactly when
\* avg_volume >= 1,500,000, the iv30_rv30 flag exactly when iv30_rv30 >= 1.25,
\* the slope flag exactly when ts_slope_0_45 <= -0.00406 (a value equal to its
\* threshold gives true), and a NaN iv30_rv30 gives a false flag.
C2_InclusiveThresholds ==
    result.kind = "dict" =>
        /\ result.avg_volume = AtLeast(avg_volume, 1500000, 1)
        /\ result.iv30_rv30 = AtLeast(iv30_rv30, 5, 4)
        /\ result.ts_slope_0_45 = AtMost(ts_slope_0_45, -406, 100000)
        /\ (IsNaN(iv30_rv30) => result.iv30_rv30 = FALSE)

\* A dictionary returned with each of the three values exactly on its threshold.
C2_Witness ==
    /\ result.kind = "dict"
    /\ avg_volume = Int2Rat(1500000)
    /\ iv30_rv30 = Rat(5, 4)
    /\ ts_slope_0_45 = Rat(-406, 100000)
    /\ result.avg_volume
    /\ result.iv30_rv30
    /\ result.ts_slope_0_45

ExpDateSet == {exp_dates[j] : j \in 1..Len(exp_dates)}

\* The expirations the call got to: those that failed, those whose chain was
\* fetched (v1), those that gave an ATM IV (v2).
Attempted ==
    failed \cup {options_chains[j].exp_date : j \in 1..Len(options_chains)}
           \cup {dtes[j] : j \in 1..Len(dtes)}

\* C5: a provider failure at one expiration does not end the call and does
\* not keep the other expirations from being processed, and the call ends
\* with the no-valid-chains error only when every expiration failed.
C5_FailureDropsOneExpiration ==
    /\ (pc = "done" /\ failed # {}) =>
          /\ result.err # "expiration"
          /\ ExpDateSet \subseteq Attempted
    /\ result.err = "chains" => failed = ExpDateSet

\* v2 ended by the failure of one expiration with later expirations untouched.
C5_Witness ==
    /\ variant = "v2"
    /\ pc = "done"
    /\ result.err = "expiration"
    /\ failed # {}
    /\ ~(ExpDateSet \subseteq Attempted)

\* C6: with a first days-to-expiry of 45 the slope step raises nothing and
\* the slope is reported as unavailable.
C6_SlopeGuardedAt45 ==
    (pc \in {"history", "done"} /\ dtes # <<>> /\ dtes[1] = CutoffDays) =>
        /\ result.err \notin {"term", "slope"}
        /\ (IsNone(ts_slope_0_45) \/ IsNaN(ts_slope_0_45))

\* v1 with the single knot 45: the division by 45 - 45 raised.
C6_Witness ==
    /\ variant = "v1"
    /\ pc = "done"
    /\ dtes = <<CutoffDays>>
    /\ result.kind = "raised"
    /\ result.err = "slope"

\* C7: with fewer than 31 bars of history the call still returns a
\* dictionary, whose iv30_rv30 flag is false.
C7_ShortHistoryCompletes ==
    (pc = "done" /\ price_history.bars > 0 /\ price_history.bars < Window + 1) =>
        /\ result.kind = "dict"
        /\ result.iv30_rv30 = FALSE

\* A history of fewer than 30 bars: the call ended in the outer handler.
C7_Witness ==
    /\ pc = "done"
    /\ price_history.bars > 0
    /\ price_history.bars < Window
    /\ result.kind \in {"raised", "none"}
    /\ result.err = "avg_volume"

Missing(x) == IsNone(x) \/ IsNaN(x)

\* C8: when a bid or an ask of the first expiration's ATM call or put is
\* missing (None or NaN), the straddle is None and so is expected_move; the
\* straddle is a number only when the four quotes are present.
C8_MissingQuoteNullStraddle ==
    i > 0 =>
        /\ (Missing(call_bid) \/ Missing(call_ask) \/ Missing(put_bid) \/ Missing(put_ask))
              => /\ IsNone(straddle)
                 /\ (result.kind = "dict" => IsNone(result.expected_move))
        /\ IsNum(straddle) =>
              ~(Missing(call_bid) \/ Missing(call_ask) \/ Missing(put_bid) \/ Missing(put_ask))

\* A NaN bid gave a NaN straddle and the expected move "nan%".
C8_Witness ==
    /\ result.kind = "dict"
    /\ IsNaN(call_bid)
    /\ IsNaN(straddle)
    /\ IsNaN(result.expected_move)

\* C10: a turn of the ATM loop after the first expiration processed leaves
\* the straddle as it is, and the turn of the first expiration processed
\* sets it from the quotes of that expiration or leaves it None.
C10_StraddleFromFirstOnly ==
    [][pc = "atm" =>
          /\ i > 0 => straddle' = straddle
          /\ (i = 0 /\ i' = 1) =>
                /\ straddle' \in {None, Add(Mid(call_bid', call_ask'),
                                            Mid(put_bid', put_ask'))}
                /\ variant = "v1" =>
                      LET calls == options_chains[pos].chain.calls
                          puts == options_chains[pos].chain.puts
                      IN  /\ call_bid' = calls[IdxMin(calls, underlying_price)].bid
                          /\ call_ask' = calls[IdxMin(calls, underlying_price)].ask
                          /\ put_bid' = puts[IdxMin(puts, underlying_price)].bid
                          /\ put_ask' = puts[IdxMin(puts, underlying_price)].ask]_vars

\* Two expirations processed, the second one with other quotes than the
\* first, and the straddle is that of the first.
C10_Witness ==
    /\ variant = "v1"
    /\ i = 2
    /\ Len(options_chains) >= 2
    /\ options_chains[1].chain \in {Flat(iv, Int2Rat(1), Int2Rat(3)) : iv \in AtmIvs}
    /\ options_chains[2].chain = Tied
    /\ dtes = <<options_chains[1].exp_date, options_chains[2].exp_date>>
    /\ straddle = Int2Rat(4)

(***************************************************************************)
(* Specification SpecBatch: the loop running compute_recommendation on     *)
(* each symbol of the day, in earnings_calendar.get_earnings_for_date      *)
(* (ec1), earnings_calendar_v2.get_earnings_for_date (ec2) and             *)
(* earnings_calendar_v5.main (ec5), and what follows the loop.             *)
(***************************************************************************)
BatchVariants == {"ec1", "ec2", "ec5"}

MaxTickers == 3

NoCells ==
    [avg_volume |-> "None", iv30_rv30 |-> "None", ts_slope_0_45 |-> "None",
     expected_move |-> None]

\* The dictionaries compute_recommendation returns.
BatchDicts ==
    [avg_volume : {"True", "False"}, iv30_rv30 : {"True", "False"},
     ts_slope_0_45 : {"True", "False"}, expected_move : Moves]

Failure(kind) == [kind |-> kind, cells |-> NoCells]

\* What the compute_recommendation of each batch makes of the data of a
\* symbol: trade_rec.compute_recommendation (ec1) returns a dictionary or an
\* error string, or raises; IBTradeRecommendation.compute_recommendation
\* (ec2) returns a dictionary or {'error': ...}; trade_rec_v2's (ec5) returns
\* a dictionary or None.
SymbolData(bv) ==
    {[kind |-> "dict", cells |-> c] : c \in BatchDicts} \cup
    {Failure(IF bv = "ec5" THEN "none" ELSE "error")}

\* The call with the arguments the batch passes.  ec1 passes sleep_time=2 to
\* trade_rec.compute_recommendation(ticker), which has no such parameter: the
\* call raises TypeError before the body runs, whatever the data.
Call(bv, d) == IF bv = "ec1" THEN Failure("raised") ELSE d

\* What the call of compute_recommendation gives in each batch.
CallOutcomes(bv) == {Call(bv, d) : d \in SymbolData(bv)}

\* The loop stopping at the first symbol that fails.
NextIdxBreakOnFailure(kind, idx, n) == IF kind = "dict" THEN idx + 1 ELSE n + 1

\* for ... in ...: the handlers end the turn, the loop goes to the next
\* symbol whatever the call gave.
NextIdx(kind, idx, n) == idx + 1

BTInit ==
    /\ bt_variant \in BatchVariants
    /\ \E n \in 1..MaxTickers : bt_tickers = [j \in 1..n |-> j]
    /\ bt_idx = 1
    /\ bt_df = IF bt_variant = "ec1"
               THEN [j \in 1..Len(bt_tickers) |-> Row(bt_tickers[j], NoCells)]
               ELSE <<>>
    /\ bt_results = <<>>
    /\ bt_errors = {}
    /\ bt_end = "running"
    /\ bt_out = <<>>
    /\ bt_data = <<>>
    /\ TSIdle
    /\ RTIdle
    /\ ATIdle
    /\ RecIdle
    /\ FnIdle
    /\ WtIdle
    /\ SbIdle
    /\ ApIdle
    /\ DbIdle

\* One turn of the loop: the call, then the branch or the handler taking
\* its outcome.  ec1 writes a dictionary into the row of df; ec2 and ec5
\* append it to results; an error returned or an exception is logged.
BTProcess ==
    /\ bt_end = "running"
    /\ bt_idx <= Len(bt_tickers)
    /\ \E d \in SymbolData(bt_variant), o \in CallOutcomes(bt_variant) :
          /\ o = Call(bt_variant, d)
          /\ bt_data' = Append(bt_data, d)
          /\ IF o.kind = "dict"
             THEN /\ bt_df' = IF bt_variant = "ec1"
                              THEN [bt_df EXCEPT ![bt_idx] = Row(bt_tickers[bt_idx], o.cells)]
                              ELSE bt_df
                  /\ bt_results' = IF bt_variant = "ec1" THEN bt_results
                                   ELSE Append(bt_results, Row(bt_tickers[bt_idx], o.cells))
                  /\ UNCHANGED bt_errors
             ELSE /\ bt_errors' = bt_errors \cup {bt_tickers[bt_idx]}
                  /\ UNCHANGED <<bt_df, bt_results>>
          /\ bt_idx' = NextIdx(o.kind, bt_idx, Len(bt_tickers))
    /\ UNCHANGED <<bt_variant, bt_tickers, bt_end, bt_out>>
    /\ UNCHANGED notBT

\* After the loop.  ec1 rates, filters, sorts and returns; ec2 returns an
\* empty DataFrame when results is empty and otherwise reaches
\* date_obj.strftime with date_obj never assigned (NameError); ec5 hands
\* results to the emailer.
BTFinish ==
    /\ bt_end = "running"
    /\ bt_idx > Len(bt_tickers)
    /\ IF bt_variant = "ec1"
       THEN LET rated == [j \in 1..Len(bt_df) |->
                             [bt_df[j] EXCEPT !.rating = RatingOf(bt_df[j])]]
                sorted == SortValues(DropNaRating(rated))
            IN  /\ bt_out' = [j \in 1..Len(sorted) |-> KeepColumns(sorted[j])]
                /\ bt_end' = "returned"
       ELSE IF bt_variant = "ec2"
       THEN /\ bt_out' = <<>>
            /\ bt_end' = IF bt_results = <<>> THEN "returned" ELSE "raised"
       ELSE /\ bt_out' = bt_results
            /\ bt_end' = "returned"
    /\ UNCHANGED <<bt_variant, bt_tickers, bt_idx, bt_df, bt_results, bt_errors,
                   bt_data>>
    /\ UNCHANGED notBT

BTNext == BTProcess \/ BTFinish

SpecBatch == BTInit /\ [][BTNext]_vars

\* The symbol has a row in results, or its row of df was filled.
Stored(j) ==
    \/ \E m \in 1..Len(bt_results) : bt_results[m].Symbol = j
    \/ \E m \in 1..Len(bt_df) : bt_df[m].Symbol = j /\ bt_df[m].avg_volume # "None"

HandedOut(j) == \E m \in 1..Len(bt_out) : bt_out[m].Symbol = j

\* C4: a symbol whose computation raised or returned an error is in no
\* result, and the loop still takes every later symbol: every symbol before
\* the loop's position, and at the end every symbol of the batch, has either
\* failed or been stored.
C4_FailureNeverAbortsBatch ==
    /\ \A j \in bt_errors : ~Stored(j) /\ ~HandedOut(j)
    /\ \A j \in 1..Len(bt_tickers) :
          (j < bt_idx \/ bt_end \in {"returned", "raised"})
              => (bt_tickers[j] \in bt_errors \/ Stored(bt_tickers[j]))

\* The first symbol failed and the second one is in the results handed out.
C4_Witness ==
    /\ bt_end = "returned"
    /\ Len(bt_tickers) >= 2
    /\ bt_tickers[1] \in bt_errors
    /\ HandedOut(bt_tickers[2])
    /\ ~HandedOut(bt_tickers[1])

\* v1: the chain of the first expiration that gave an ATM IV.
FirstChain ==
    options_chains[CHOOSE j \in 1..Len(options_chains) :
                       options_chains[j].exp_date = dtes[1]].chain

\* C11: the straddle combines a call and a put of the same strike: after the
\* turn of the first expiration processed, the put row read for the straddle
\* has the strike of the call row.
C11_StraddleLegsSameStrike ==
    (i = 1 /\ ~IsNone(straddle)) =>
        IF variant = "v1"
        THEN FirstChain.calls[call_idx].strike = FirstChain.puts[put_idx].strike
        ELSE strikes[call_idx] = strikes[put_idx]

\* v1 on a chain whose nearest call is the 95 and whose nearest put is the
\* 105: the straddle 13 adds the mid of the one to the mid of the other.
C11_Witness ==
    /\ variant = "v1"
    /\ i = 1
    /\ FirstChain = Tied
    /\ straddle = Int2Rat(13)
    /\ FirstChain.calls[call_idx].strike = 95
    /\ FirstChain.puts[put_idx].strike = 105

\* v1: the fetched chains with calls and puts both non-empty, in order.
BothSides ==
    SelectSeq(options_chains, LAMBDA c : c.chain.calls # <<>> /\ c.chain.puts # <<>>)

\* v1: the ATM loop has run over every fetched chain.
AtmLoopDone ==
    /\ variant = "v1"
    /\ \/ pc = "history"
       \/ pc = "done" /\ result.err \in {"atm_iv", "term", "slope", "history", "avg_volume", ""}

\* C12: in trade_rec an expiration with no calls or no puts is left out
\* without failing the call (an exception in the ATM loop is never at such an
\* expiration); once the loop has run, there is one ATM IV for each expiration
\* having both sides, in order, and the call ends with the 'no ATM IV' error
\* exactly when there is none.
C12_EmptySideSkipped ==
    variant = "v1" =>
        /\ result.err = "atm" =>
              /\ options_chains[pos].chain.calls # <<>>
              /\ options_chains[pos].chain.puts # <<>>
        /\ result.err = "atm_iv" => AtmLoopDone
        /\ AtmLoopDone =>
              /\ dtes = [j \in 1..Len(BothSides) |-> BothSides[j].exp_date]
              /\ Len(ivs) = Len(dtes)
              /\ result.err = "atm_iv" <=> dtes = <<>>

\* The first chain fetched has no calls, a later one gave an ATM IV and the
\* call went on past the loop.
C12_Witness ==
    /\ AtmLoopDone
    /\ Len(options_chains) >= 2
    /\ options_chains[1].chain.calls = <<>>
    /\ Len(dtes) = Len(options_chains) - 1
    /\ result.kind = "dict"

(***************************************************************************)
(* Specification SpecDates: filter_dates applied to every list of at most  *)
(* MaxDates distinct expiration dates, in any order, none in the past.     *)
(***************************************************************************)
MaxDates == 3

DateDays == {0, 1, 30, 44, 45, 46, 60}

Range(q) == {q[j] : j \in 1..Len(q)}

Applied(ok, val) == [done |-> TRUE, ok |-> ok, val |-> val]

FDInit ==
    /\ fn_name = "filter_dates"
    /\ fn_arg \in {q \in SeqsUpTo(DateDays, MaxDates) : Cardinality(Range(q)) = Len(q)}
    /\ fn_out = NotApplied
    /\ TSIdle
    /\ RTIdle
    /\ ATIdle
    /\ RecIdle
    /\ BTIdle
    /\ WtIdle
    /\ SbIdle
    /\ ApIdle
    /\ DbIdle

FDApply ==
    /\ fn_name = "filter_dates"
    /\ ~fn_out.done
    /\ fn_out' = LET f == FilterDates(Range(fn_arg)) IN Applied(f.ok, f.arr)
    /\ UNCHANGED <<fn_name, fn_arg>>
    /\ UNCHANGED notFn

SpecDates == FDInit /\ [][FDApply]_vars

\* C13: filter_dates returns, in ascending order, the dates up to and
\* including the earliest one at least 45 days out, later ones left out and
\* today's date dropped; it raises when no date is at least 45 days out.
C13_FilterDates ==
    (fn_name = "filter_dates" /\ fn_out.done) =>
        LET far == {d \in Range(fn_arg) : d >= 45}
        IN  IF far = {} THEN ~fn_out.ok
            ELSE LET boundary == CHOOSE d \in far : \A e \in far : d <= e
                 IN  /\ fn_out.ok
                     /\ Range(fn_out.val) = {d \in Range(fn_arg) : d <= boundary /\ d # 0}
                     /\ \A j \in 1..(Len(fn_out.val) - 1) : fn_out.val[j] < fn_out.val[j + 1]

\* Today, the boundary date and a later date, out of order: only the boundary
\* date is returned.
C13_Witness ==
    /\ fn_name = "filter_dates"
    /\ fn_out.done
    /\ fn_arg = <<60, 0, 45>>
    /\ fn_out.val = <<45>>

\* The place of a request in the pipeline.
Rank(q) ==
    IF q.kind = "options" THEN 1
    ELSE IF q.kind = "chain" THEN 2
    ELSE IF q.kind = "price" THEN 3
    ELSE 4

Asked(kind) == \E j \in 1..Len(requests) : requests[j].kind = kind

\* C14: trade_rec issues its provider requests in the order expirations,
\* one chain per qualifying expiration in order, price, history; none is
\* issued twice; and a call ended by the error of a step has issued no
\* request of a later step.
C14_LinearPipeline ==
    variant = "v1" =>
        /\ \A j, m \in 1..Len(requests) :
              j < m =>
                 /\ Rank(requests[j]) <= Rank(requests[m])
                 /\ Rank(requests[j]) = Rank(requests[m]) =>
                       /\ requests[j].kind = "chain"
                       /\ requests[j].exp < requests[m].exp
        /\ \A j \in 1..Len(requests) :
              requests[j].kind = "chain" => requests[j].exp = exp_dates[j - 1]
        /\ result.err \in {"options", "dates"} => requests = <<Req("options", 0)>>
        /\ result.err \in {"options", "dates", "chains"} => ~Asked("price")
        /\ result.err \in {"options", "dates", "chains", "price", "atm", "atm_iv",
                           "term", "slope"} => ~Asked("history")
        /\ result.err = "chains" => requests[Len(requests)].kind = "chain"
        /\ result.err = "price" => requests[Len(requests)].kind = "price"

\* A chain request failed, the next expiration was asked for, and the call
\* ended with the price error right after the price request.
C14_Witness ==
    /\ variant = "v1"
    /\ result.err = "price"
    /\ Len(exp_dates) >= 2
    /\ exp_dates[1] \in failed
    /\ Len(requests) = Len(exp_dates) + 2
    /\ requests[Len(requests)].kind = "price"

\* C15: with fewer than 2 distinct day counts the term structure is built
\* without raising and is constant: every dte gives the single IV available
\* (the last one given for that day count), or 0.20 when there is no point.
C15_ConstantBelowTwoKnots ==
    Cardinality(DistinctDays(ts_days)) < 2 =>
        /\ ts_fn.kind # "raised"
        /\ TSQueried => ts_val = IF ts_days = <<>> THEN Rat(20, 100)
                                 ELSE ts_ivs[Len(ts_ivs)]

\* trade_rec (v1) on a single point: interp1d raised, or the closure
\* returned something else than the point's IV.
C15_Witness ==
    /\ ts_variant = "v1"
    /\ Len(ts_days) = 1
    /\ \/ ts_fn.kind = "raised"
       \/ TSQueried /\ ts_val # ts_ivs[1]

\* C16: in trade_rec_v2 the slope and iv30_rv30 are computed from the clamped
\* term structure over the (dte, iv) pairs: beyond the knots the value is the
\* boundary knot's IV, never an extrapolation.
C16_V2TermIsClamped ==
    (variant = "v2" /\ term_spline.kind # "unbuilt") =>
        /\ ts_slope_0_45 =
              NpDiv(Sub(ClampedLinear(dtes, ivs, 45), ClampedLinear(dtes, ivs, dtes[1])),
                    Int2Rat(45 - dtes[1]))
        /\ price_history.bars > 0 =>
              iv30_rv30 = NpDiv(ClampedLinear(dtes, ivs, 30), YangZhang(price_history))

\* Expirations at 15 and 30 days with ATM IVs 0.25 and 0.19: the slope is
\* that of the line through the two knots carried on to 45 days.
C16_Witness ==
    /\ variant = "v2"
    /\ dtes = <<15, 30>>
    /\ ivs = <<Rat(25, 100), Rat(19, 100)>>
    /\ ts_slope_0_45 = Rat(-4, 1000)
    /\ result.kind = "dict"

\* v2: the expirations kept that are strictly less than 45 days out.
Below45 == {j \in 1..Len(exp_dates) : exp_dates[j] < 45}

\* C17: trade_rec_v2 goes on to the expirations only with at least 2 of them
\* strictly less than 45 days out, every expiration it processes is strictly
\* less than 45 days out, and with fewer than 2 it ends with the
\* not-enough-expirations error.
C17_V2ExpirationsBelow45 ==
    (variant = "v2" /\ pc # "start" /\ result.err # "start") =>
        /\ result.err = "expirations" <=> Cardinality(Below45) < 2
        /\ result.err # "expirations" => \A j \in 1..Len(exp_dates) : exp_dates[j] < 45

\* Expirations 30 and 45 days out: both were processed and a dictionary
\* returned.
C17_Witness ==
    /\ variant = "v2"
    /\ exp_dates = <<30, 45>>
    /\ dtes = <<30, 45>>
    /\ result.kind = "dict"

(***************************************************************************)
(* Specification SpecMiddle: middle_six applied to every ascending list of *)
(* strikes among 1..MaxStrike.                                              *)
(***************************************************************************)
MaxStrike == 9

MSInit ==
    /\ fn_name = "middle_six"
    /\ fn_arg \in {SortedSeq(S) : S \in SUBSET (1..MaxStrike)}
    /\ fn_out = NotApplied
    /\ TSIdle
    /\ RTIdle
    /\ ATIdle
    /\ RecIdle
    /\ BTIdle
    /\ WtIdle
    /\ SbIdle
    /\ ApIdle
    /\ DbIdle

MSApply ==
    /\ fn_name = "middle_six"
    /\ ~fn_out.done
    /\ fn_out' = Applied(TRUE, MiddleSix(fn_arg))
    /\ UNCHANGED <<fn_name, fn_arg>>
    /\ UNCHANGED notFn

SpecMiddle == MSInit /\ [][MSApply]_vars

\* C18: middle_six returns a list of at most 6 elements unchanged; of a longer
\* list of n elements it returns the 6 consecutive elements left after
\* removing floor((n - 6) / 2) from the front and ceil((n - 6) / 2) from the
\* back.
C18_MiddleSix ==
    (fn_name = "middle_six" /\ fn_out.done) =>
        LET n == Len(fn_arg)
            front == (n - 6) \div 2
            back == (n - 6 + 1) \div 2
        IN  IF n <= 6 THEN fn_out.val = fn_arg
            ELSE /\ Len(fn_out.val) = 6
                 /\ front + back = n - 6
                 /\ \A j \in 1..6 : fn_out.val[j] = fn_arg[front + j]

\* A list of 9 strikes: one is removed from the front, two from the back.
C18_Witness ==
    /\ fn_name = "middle_six"
    /\ fn_out.done
    /\ fn_arg = <<1, 2, 3, 4, 5, 6, 7, 8, 9>>
    /\ fn_out.val = <<2, 3, 4, 5, 6, 7>>

(***************************************************************************)
(* Specification SpecSort: the sort of get_earnings_for_date applied to    *)
(* every filtered_df of at most MaxSortRows rated rows.  An expected_move  *)
(* cell is None, a percentage string (its number) or "nan%" (NaN).         *)
(***************************************************************************)
MaxSortRows == 3

SortMoves == {None, NaN, Int2Rat(1), Int2Rat(2), Int2Rat(5)}

\* A rated row of df: Go with the three flags true, Consider with iv30_rv30
\* false.
RatedRow(j, rating, move) ==
    [Symbol |-> j, avg_volume |-> "True",
     iv30_rv30 |-> IF rating = "Go" THEN "True" ELSE "False",
     ts_slope_0_45 |-> "True", expected_move |-> move, rating |-> rating]

SVInit ==
    /\ fn_name = "sort_values"
    /\ \E m \in 1..MaxSortRows :
          \E c \in [1..m -> {"Go", "Consider"} \X SortMoves] :
             fn_arg = [j \in 1..m |-> RatedRow(j, c[j][1], c[j][2])]
    /\ fn_out = NotApplied
    /\ TSIdle
    /\ RTIdle
    /\ ATIdle
    /\ RecIdle
    /\ BTIdle
    /\ WtIdle
    /\ SbIdle
    /\ ApIdle
    /\ DbIdle

\* Lines 255-284: the sort keys, sort_values, the columns kept.
SVApply ==
    /\ fn_name = "sort_values"
    /\ ~fn_out.done
    /\ fn_out' = LET sorted == SortValues(DropNaRating(fn_arg))
                 IN  Applied(TRUE, [j \in 1..Len(sorted) |-> KeepColumns(sorted[j])])
    /\ UNCHANGED <<fn_name, fn_arg>>
    /\ UNCHANGED notFn

SpecSort == SVInit /\ [][SVApply]_vars

\* expected_move as a number: 0 when missing or not the string of a number.
MoveOrZero(r) == IF IsNum(r.expected_move) THEN r.expected_move ELSE Int2Rat(0)

\* C19: the result is a permutation of the rated rows in which every Go row
\* precedes every Consider row, rows of one rating are in descending order of
\* expected_move (missing or unparseable counting as 0), and rows equal in
\* both keep their input order.
C19_BatchSortOrder ==
    (fn_name = "sort_values" /\ fn_out.done) =>
        /\ Len(fn_out.val) = Len(fn_arg)
        /\ \A j \in 1..Len(fn_arg) :
              \E m \in 1..Len(fn_out.val) : fn_out.val[m] = KeepColumns(fn_arg[j])
        /\ \A j, m \in 1..Len(fn_out.val) :
              j < m =>
                 LET r == fn_out.val[j]
                     q == fn_out.val[m]
                 IN  /\ ~(r.rating = "Consider" /\ q.rating = "Go")
                     /\ r.rating = q.rating => Geq(MoveOrZero(r), MoveOrZero(q))
                     /\ (r.rating = q.rating /\ MoveOrZero(r) = MoveOrZero(q))
                           => r.Symbol < q.Symbol

\* Two Go rows, the first with expected_move "nan%", the second with none:
\* the second is returned first.
C19_Witness ==
    /\ fn_name = "sort_values"
    /\ fn_out.done
    /\ fn_arg = <<RatedRow(1, "Go", NaN), RatedRow(2, "Go", None)>>
    /\ fn_out.val = <<KeepColumns(fn_arg[2]), KeepColumns(fn_arg[1])>>

(***************************************************************************)
(* Specification SpecMove: the straddle of the first expiration and the    *)
(* expected_move string computed from it, for every combination of the     *)
(* four quotes and the underlying price.  v1 quotes may be None or NaN, v2 *)
(* quotes are floats (NaN when the provider has no value).                 *)
(***************************************************************************)
MoveQuotes == {None, NaN, Int2Rat(0), Int2Rat(1), Rat(5, 2)}

MovePrices == {Int2Rat(3), Int2Rat(100), Int2Rat(250)}

\* str(x) + "%" for a float x that round(., 2) returned: "nan" for NaN, else
\* the integer part, a point and the hundredths without a trailing zero but
\* with at least one digit ("2.0", "0.7", "166.67").
MoveText(x) ==
    IF IsNaN(x) THEN "nan%"
    ELSE LET c == (x.n * 100) \div x.d
             f == c % 100
         IN  ToString(c \div 100) \o "." \o
             (IF f % 10 = 0 THEN ToString(f \div 10)
              ELSE ToString(f \div 10) \o ToString(f % 10)) \o "%"

\* expected_move = str(round(straddle / price * 100, 2)) + "%" if straddle
\* else None, as the string.
ExpectedMoveText(x, price) ==
    IF StraddleTruthy(x) THEN MoveText(ExpectedMove(x, price)) ELSE "None"

MVInit ==
    /\ fn_name = "expected_move"
    /\ \E v \in {"v1", "v2"}, cb, ca, pb, pa \in MoveQuotes, price \in MovePrices :
          /\ v = "v2" => None \notin {cb, ca, pb, pa}
          /\ fn_arg = [variant |-> v, call_bid |-> cb, call_ask |-> ca,
                       put_bid |-> pb, put_ask |-> pa, price |-> price]
    /\ fn_out = NotApplied
    /\ TSIdle
    /\ RTIdle
    /\ ATIdle
    /\ RecIdle
    /\ BTIdle
    /\ WtIdle
    /\ SbIdle
    /\ ApIdle
    /\ DbIdle

\* trade_rec.py lines 144, 164-181 and 206; trade_rec_v2.py lines 202,
\* 233-236 and 248.
MVApply ==
    /\ fn_name = "expected_move"
    /\ ~fn_out.done
    /\ fn_out' =
          LET a == fn_arg
              x == IF a.variant = "v1"
                   THEN StraddleV1(None, a.call_bid, a.call_ask, a.put_bid, a.put_ask)
                   ELSE StraddleV2(a.call_bid, a.call_ask, a.put_bid, a.put_ask)
          IN  Applied(TRUE, [straddle |-> x,
                             expected_move |-> ExpectedMoveText(x, a.price)])
    /\ UNCHANGED <<fn_name, fn_arg>>
    /\ UNCHANGED notFn

SpecMove == MVInit /\ [][MVApply]_vars

\* C20: for every non-null straddle and every underlying price > 0,
\* expected_move is the string of straddle / price * 100 rounded to 2
\* decimals followed by "%"; it is null only when the straddle is null.
C20_ExpectedMoveFormula ==
    (fn_name = "expected_move" /\ fn_out.done) =>
        LET x == fn_out.val.straddle
            price == fn_arg.price
        IN  /\ (~IsNone(x) /\ Lt(Int2Rat(0), price)) =>
                   fn_out.val.expected_move =
                       MoveText(Round2(Mul(NpDiv(x, price), Int2Rat(100))))
            /\ fn_out.val.expected_move = "None" => IsNone(x)

\* All four quotes of the first expiration are 0.0: the straddle is 0.0, not
\* null, and expected_move is None.
C20_Witness ==
    /\ fn_name = "expected_move"
    /\ fn_out.done
    /\ fn_arg.call_bid = Int2Rat(0) /\ fn_arg.call_ask = Int2Rat(0)
    /\ fn_arg.put_bid = Int2Rat(0) /\ fn_arg.put_ask = Int2Rat(0)
    /\ fn_out.val.straddle = Int2Rat(0)
    /\ fn_out.val.expected_move = "None"

(***************************************************************************)
(* Specification SpecWait: MarketDataClient.get_historical_data and        *)
(* AccountDataClient.get_executed_trades (no database, the constructor's   *)
(* default), called up to MaxCalls times on one connection, together with  *)
(* the thread started by connect() that dispatches the gateway's messages  *)
(* to the callbacks of the app.  Every request uses reqId 1; the model     *)
(* gives each message the number of the call whose request it answers.     *)
(* Time is counted in polls of time.sleep(0.1).                            *)
(***************************************************************************)
Timeout == 10

PollsPerSecond == 10

MaxCalls == 2

MaxBars == 1

\* The dates a bar or execution can carry: 1..MaxBars lie within
\* [start_date, end_date], 0 lies before start_date.
BarDates == 0..MaxBars

\* What the gateway sends for one request: the bars in ascending date order,
\* then the end message.
Answer(r, S) ==
    [j \in 1..Cardinality(S) |-> [kind |-> "bar", req |-> r, date |-> SortedSeq(S)[j]]]
        \o <<[kind |-> "end", req |-> r, date |-> 0]>>

\* while not self.app.data_received and time.time() - start_time < timeout
WaitContinuesNoTimeout(flag, polls) == ~flag

WaitContinues(flag, polls) == ~flag /\ polls < Timeout * PollsPerSecond

\* df[(df['date'] >= start_date) & (df['date'] <= end_date)]
InDateRange(rows) == SelectSeq(rows, LAMBDA b : b.date >= 1 /\ b.date <= MaxBars)

RECURSIVE InsertByDate(_, _, _)
InsertByDate(sorted, b, desc) ==
    IF sorted = <<>> THEN <<b>>
    ELSE IF (IF desc THEN b.date > Head(sorted).date ELSE b.date < Head(sorted).date)
         THEN <<b>> \o sorted
         ELSE <<Head(sorted)>> \o InsertByDate(Tail(sorted), b, desc)

\* df.sort_values('date', ...): rows of one date keep their order.
RECURSIVE SortByDate(_, _)
SortByDate(rows, desc) ==
    IF rows = <<>> THEN <<>>
    ELSE InsertByDate(SortByDate(SubSeq(rows, 1, Len(rows) - 1), desc), rows[Len(rows)], desc)

\* The DataFrame returned: market.py lines 122-129, account.py lines 96-107.
Frame(client, rows) == SortByDate(InDateRange(rows), client = "account")

WtInit ==
    /\ wt_client \in {"market", "account"}
    /\ app_data = <<>>
    /\ data_received = FALSE
    /\ wt_end_req = 0
    /\ wt_pc = "idle"
    /\ wt_call = 0
    /\ wt_clock = 0
    /\ wt_socket = <<>>
    /\ wt_unanswered = {}
    /\ wt_ret = <<>>
    /\ TSIdle
    /\ RTIdle
    /\ ATIdle
    /\ RecIdle
    /\ BTIdle
    /\ FnIdle
    /\ SbIdle
    /\ ApIdle
    /\ DbIdle

\* The call starts: self.app.data = [] (market.py:95, account.py:80).
WtResetData ==
    /\ wt_pc = "idle"
    /\ wt_call < MaxCalls
    /\ wt_call' = wt_call + 1
    /\ app_data' = <<>>
    /\ wt_pc' = "reset_flag"
    /\ UNCHANGED <<wt_client, data_received, wt_end_req, wt_clock, wt_socket,
                   wt_unanswered, wt_ret>>
    /\ UNCHANGED notWt

\* self.app.data_received = False (market.py:96, account.py:81).
WtResetFlag ==
    /\ wt_pc = "reset_flag"
    /\ data_received' = FALSE
    /\ wt_end_req' = 0
    /\ wt_pc' = "request"
    /\ UNCHANGED <<wt_client, app_data, wt_call, wt_clock, wt_socket, wt_unanswered, wt_ret>>
    /\ UNCHANGED notWt

\* reqHistoricalData(reqId=1, ...) / reqExecutions(1, ...), then
\* start_time = time.time().
WtRequest ==
    /\ wt_pc = "request"
    /\ wt_unanswered' = wt_unanswered \cup {wt_call}
    /\ wt_clock' = 0
    /\ wt_pc' = "wait"
    /\ UNCHANGED <<wt_client, app_data, data_received, wt_end_req, wt_call, wt_socket, wt_ret>>
    /\ UNCHANGED notWt

\* One turn of the wait loop: the condition holds, time.sleep(0.1).
WtPoll ==
    /\ wt_pc = "wait"
    /\ WaitContinues(data_received, wt_clock)
    /\ wt_clock' = IF wt_clock < Timeout * PollsPerSecond THEN wt_clock + 1 ELSE wt_clock
    /\ UNCHANGED <<wt_client, app_data, data_received, wt_end_req, wt_pc, wt_call,
                   wt_socket, wt_unanswered, wt_ret>>
    /\ UNCHANGED notWt

\* The condition of the wait loop fails.
WtExit ==
    /\ wt_pc = "wait"
    /\ ~WaitContinues(data_received, wt_clock)
    /\ wt_pc' = "check"
    /\ UNCHANGED <<wt_client, app_data, data_received, wt_end_req, wt_call, wt_clock,
                   wt_socket, wt_unanswered, wt_ret>>
    /\ UNCHANGED notWt

\* if not self.app.data_received: print("Warning: Data retrieval timed out")
WtCheck ==
    /\ wt_pc = "check"
    /\ wt_pc' = IF data_received THEN "frame" ELSE "frame_warned"
    /\ UNCHANGED <<wt_client, app_data, data_received, wt_end_req, wt_call, wt_clock,
                   wt_socket, wt_unanswered, wt_ret>>
    /\ UNCHANGED notWt

\* df = pd.DataFrame(self.app.data), the filter, the sort, return df.
WtReturn ==
    /\ wt_pc \in {"frame", "frame_warned"}
    /\ wt_ret' = Append(wt_ret, [call |-> wt_call,
                                 rows |-> Frame(wt_client, app_data),
                                 warned |-> wt_pc = "frame_warned",
                                 timed_out |-> wt_clock >= Timeout * PollsPerSecond,
                                 end_req |-> wt_end_req])
    /\ wt_clock' = 0
    /\ wt_pc' = "idle"
    /\ UNCHANGED <<wt_client, app_data, data_received, wt_end_req, wt_call, wt_socket,
                   wt_unanswered>>
    /\ UNCHANGED notWt

\* The gateway answers a request: its bars (executions), then the end.
WtAnswer ==
    /\ \E r \in wt_unanswered, S \in SUBSET BarDates :
          /\ wt_socket' = wt_socket \o Answer(r, S)
          /\ wt_unanswered' = wt_unanswered \ {r}
    /\ UNCHANGED <<wt_client, app_data, data_received, wt_end_req, wt_pc, wt_call,
                   wt_clock, wt_ret>>
    /\ UNCHANGED notWt

\* The thread of app.run() dispatches the next message: historicalData /
\* execDetails appends a row, historicalDataEnd / execDetailsEnd sets the flag.
WtDispatch ==
    /\ wt_socket # <<>>
    /\ LET msg == Head(wt_socket)
       IN  IF msg.kind = "bar"
           THEN /\ app_data' = Append(app_data, [req |-> msg.req, date |-> msg.date])
                /\ UNCHANGED <<data_received, wt_end_req>>
           ELSE /\ data_received' = TRUE
                /\ wt_end_req' = msg.req
                /\ UNCHANGED app_data
    /\ wt_socket' = Tail(wt_socket)
    /\ UNCHANGED <<wt_client, wt_pc, wt_call, wt_clock, wt_unanswered, wt_ret>>
    /\ UNCHANGED notWt

\* The steps of the calling thread between the request and the return.
WtCaller == WtPoll \/ WtExit \/ WtCheck \/ WtReturn

WtNext ==
    \/ WtResetData
    \/ WtResetFlag
    \/ WtRequest
    \/ WtPoll
    \/ WtExit
    \/ WtCheck
    \/ WtReturn
    \/ WtAnswer
    \/ WtDispatch

\* The calling thread keeps running: a sleep returns, a statement is executed.
\* Nothing is assumed of the gateway or of the dispatching thread.
SpecWait == WtInit /\ [][WtNext]_vars /\ WF_vars(WtCaller)

C26_CallsAreIsolated ==
    \A j \in 1..Len(wt_ret) :
        /\ \A k \in 1..Len(wt_ret[j].rows) : wt_ret[j].rows[k].req = wt_ret[j].call
        /\ wt_ret[j].end_req \in {0, wt_ret[j].call}
        /\ wt_ret[j].end_req = 0 => wt_ret[j].timed_out

\* The first call timed out; the second call returned, before its own timeout
\* and without a warning, a bar of the first request, its wait having been
\* ended by the first request's historicalDataEnd.
C26_Witness ==
    /\ wt_client = "market"
    /\ Len(wt_ret) = 2
    /\ wt_ret[1].warned
    /\ wt_ret[1].rows = <<>>
    /\ ~wt_ret[2].warned
    /\ ~wt_ret[2].timed_out
    /\ wt_ret[2].end_req = 1
    /\ wt_ret[2].rows = <<[req |-> 1, date |-> 1]>>

(***************************************************************************)
(* Specification SpecCap: the market-cap gate of the batch screeners,      *)
(* earnings_calendar.is_market_cap_over_threshold ("ec1", on the text      *)
(* scraped from the calendar page) and                                     *)
(* IBMarketCapFilter.is_market_cap_over_threshold ("ec2", on the answers   *)
(* of the brokerage).  A market-cap text is modelled by its parts: the     *)
(* text before the suffix (a number, NoText or Junk) and the suffix        *)
(* ("T", "B", "M" or "" for none), after strip() and upper().              *)
(***************************************************************************)
ThresholdMillions == 750

\* The empty string, and a text that float() rejects.
NoText == [k |-> "empty", n |-> 0, d |-> 1]

Junk == [k |-> "junk", n |-> 0, d |-> 1]

CapBodies == {NoText, Junk, Rat(12, 10), Int2Rat(700), Int2Rat(750), Int2Rat(800)}

CapTexts ==
    {[body |-> b, suffix |-> x] : b \in CapBodies, x \in {"", "T", "B", "M"}}
        \cup {[body |-> Int2Rat(800000000), suffix |-> ""]}

\* float(text): a number, or ValueError.
FloatParses(body) == IsNum(body)

\* earnings_calendar.is_market_cap_over_threshold, lines 23-47.
CapOverEc1(text) ==
    IF text.body = NoText /\ text.suffix = "" THEN FALSE
    ELSE IF ~FloatParses(text.body) THEN FALSE
    ELSE LET millions ==
                 CASE text.suffix = "T" -> Mul(text.body, Int2Rat(1000000))
                   [] text.suffix = "B" -> Mul(text.body, Int2Rat(1000))
                   [] text.suffix = "M" -> text.body
                   [] OTHER -> Mul(text.body, Rat(1, 1000000))
         IN  Lt(Int2Rat(ThresholdMillions), millions)

\* ticker.marketPrice, the bound method that line 80 does not call.
BoundMethod == [k |-> "method", n |-> 0, d |-> 1]

\* Python truth of a price: 0.0 is false; NaN and a method object are true.
PriceTruthy(x) == ~(IsNum(x) /\ x.n = 0)

CapPrices == {NaN, Int2Rat(0), Int2Rat(40), Int2Rat(60)}

\* reqHistoricalDataAsync raises, or returns no bar.
BarsRaise == [k |-> "raise", n |-> 0, d |-> 1]

NoBars == [k |-> "empty", n |-> 0, d |-> 1]

\* The answers of the brokerage to one get_market_cap call.
CapAnswers ==
    [connected : BOOLEAN, details : {"raise", "empty", "found"},
     last : CapPrices, close : CapPrices,
     bars : {BarsRaise, NoBars} \cup CapPrices]

\* IBMarketCapFilter.get_market_cap, lines 63-113: the market cap in millions,
\* or None.
GetMarketCap(a) ==
    IF ~a.connected THEN None
    ELSE IF a.details = "raise" THEN None
    ELSE IF a.details = "empty" THEN None
    ELSE LET quoted == IF PriceTruthy(a.last) THEN a.last
                       ELSE IF PriceTruthy(a.close) THEN a.close
                       ELSE BoundMethod
             price == IF (~PriceTruthy(quoted) \/ IsNaN(quoted)) /\ a.bars \in CapPrices
                      THEN a.bars
                      ELSE quoted
         IN  IF ~PriceTruthy(price) \/ IsNaN(price) THEN None
             ELSE IF price = BoundMethod THEN None
             ELSE IF Lt(Int2Rat(50), price) THEN Int2Rat(1000)
             ELSE Int2Rat(100)

\* IBMarketCapFilter.is_market_cap_over_threshold, lines 126-132.
CapOverEc2(a) ==
    LET market_cap == GetMarketCap(a)
    IN  IF IsNone(market_cap) THEN TRUE
        ELSE Lt(Int2Rat(ThresholdMillions), market_cap)

CapInit ==
    /\ fn_name = "is_market_cap_over_threshold"
    /\ \/ \E t \in CapTexts : fn_arg = [variant |-> "ec1", text |-> t]
       \/ \E a \in CapAnswers : fn_arg = [variant |-> "ec2", answers |-> a]
    /\ fn_out = NotApplied
    /\ TSIdle
    /\ RTIdle
    /\ ATIdle
    /\ RecIdle
    /\ BTIdle
    /\ WtIdle
    /\ SbIdle
    /\ ApIdle
    /\ DbIdle

CapApply ==
    /\ fn_name = "is_market_cap_over_threshold"
    /\ ~fn_out.done
    /\ fn_out' = Applied(TRUE, IF fn_arg.variant = "ec1" THEN CapOverEc1(fn_arg.text)
                               ELSE CapOverEc2(fn_arg.answers))
    /\ UNCHANGED <<fn_name, fn_arg>>
    /\ UNCHANGED notFn

SpecCap == CapInit /\ [][CapApply]_vars

\* The market cap of the symbol cannot be determined.
CapUnknown ==
    IF fn_arg.variant = "ec1" THEN ~FloatParses(fn_arg.text.body)
    ELSE IsNone(GetMarketCap(fn_arg.answers))

\* C22: whenever the market cap of a symbol cannot be determined, the gate
\* returns true.
C22_GateInclusiveOnMissing ==
    (fn_name = "is_market_cap_over_threshold" /\ fn_out.done /\ CapUnknown) =>
        fn_out.val = TRUE

\* The calendar row has no market-cap cell: the text is empty and the gate of
\* earnings_calendar returns False.
C22_Witness ==
    /\ fn_name = "is_market_cap_over_threshold"
    /\ fn_out.done
    /\ fn_arg.variant = "ec1"
    /\ fn_arg.text = [body |-> NoText, suffix |-> ""]
    /\ fn_out.val = FALSE

(***************************************************************************)
(* Specification SpecSubs: the reqMktData subscriptions opened by          *)
(* IBTradeRecommendation.get_option_data and                               *)
(* IBMarketCapFilter.get_market_cap over up to MaxSubCalls calls on one    *)
(* connection.  What the brokerage answers to a call is an input; the      *)
(* expirations and strikes of the chain enter by whether an expiry parses  *)
(* and whether a strike lies within 10% of the price.                      *)
(***************************************************************************)
MaxSubCalls == 2

\* The answers to one get_option_data call.
OptionAnswers ==
    [last : CapPrices, close : CapPrices, bars : {BarsRaise, NoBars} \cup CapPrices,
     chains : {"raise", "empty", "found"}, expiry : BOOLEAN, near_strike : BOOLEAN]

\* ticker.last or ticker.close or ticker.marketPrice, then the historical
\* close when that is falsy or NaN (get_option_data 154-169, get_market_cap
\* 80-95).
PriceOf(a) ==
    LET quoted == IF PriceTruthy(a.last) THEN a.last
                  ELSE IF PriceTruthy(a.close) THEN a.close
                  ELSE BoundMethod
    IN  IF (~PriceTruthy(quoted) \/ IsNaN(quoted)) /\ a.bars \in CapPrices
        THEN a.bars
        ELSE quoted

\* The return path of get_option_data after reqMktData, lines 152-233.
OptionPath(a) ==
    LET price == PriceOf(a)
    IN  IF ~PriceTruthy(price) \/ IsNaN(price) THEN "no_price"
        ELSE IF a.chains \in {"raise", "empty"} THEN "no_chain"
        ELSE IF ~a.expiry THEN "no_expiry"
        ELSE IF price = BoundMethod THEN "exception"
        ELSE IF ~a.near_strike THEN "no_strike"
        ELSE "success"

\* The paths of get_option_data that pass self.ib.cancelMktData(stock), line 221.
OptionPathCancels(path) == path = "success"

\* The return path of get_market_cap; the first three return before reqMktData.
CapPath(a) ==
    IF ~a.connected THEN "not_connected"
    ELSE IF a.details = "raise" THEN "details_raised"
    ELSE IF a.details = "empty" THEN "no_details"
    ELSE LET price == PriceOf(a)
         IN  IF ~PriceTruthy(price) \/ IsNaN(price) THEN "no_price"
             ELSE IF price = BoundMethod THEN "exception"
             ELSE "success"

CapSubscribes(path) == path \notin {"not_connected", "details_raised", "no_details"}

\* get_market_cap cancels at line 98, before any of its later returns.
CapPathCancels(path) == CapSubscribes(path)

SbInit ==
    /\ sb_fn = "none"
    /\ sb_answers = <<>>
    /\ sb_pc = "idle"
    /\ sb_open = 0
    /\ sb_calls = 0
    /\ sb_path = "none"
    /\ TSIdle
    /\ RTIdle
    /\ ATIdle
    /\ RecIdle
    /\ BTIdle
    /\ FnIdle
    /\ WtIdle
    /\ ApIdle
    /\ DbIdle

\* get_option_data up to await asyncio.sleep(3): reqMktData opens a
\* subscription (line 151).
SbOptionStart ==
    /\ sb_pc = "idle"
    /\ sb_calls < MaxSubCalls
    /\ \E a \in OptionAnswers : sb_answers' = a
    /\ sb_fn' = "get_option_data"
    /\ sb_calls' = sb_calls + 1
    /\ sb_open' = sb_open + 1
    /\ sb_pc' = "subscribed"
    /\ UNCHANGED sb_path
    /\ UNCHANGED notSb

\* get_option_data from line 154 to its return.
SbOptionReturn ==
    /\ sb_pc = "subscribed"
    /\ sb_fn = "get_option_data"
    /\ sb_path' = OptionPath(sb_answers)
    /\ sb_open' = IF OptionPathCancels(OptionPath(sb_answers)) THEN sb_open - 1 ELSE sb_open
    /\ sb_pc' = "idle"
    /\ UNCHANGED <<sb_fn, sb_answers, sb_calls>>
    /\ UNCHANGED notSb

\* get_market_cap up to await asyncio.sleep(3), or to its return when it
\* returns before reqMktData (lines 63-77).
SbCapStart ==
    /\ sb_pc = "idle"
    /\ sb_calls < MaxSubCalls
    /\ \E a \in CapAnswers :
          /\ sb_answers' = a
          /\ IF CapSubscribes(CapPath(a))
             THEN /\ sb_open' = sb_open + 1
                  /\ sb_pc' = "subscribed"
                  /\ UNCHANGED sb_path
             ELSE /\ sb_path' = CapPath(a)
                  /\ UNCHANGED <<sb_open, sb_pc>>
    /\ sb_fn' = "get_market_cap"
    /\ sb_calls' = sb_calls + 1
    /\ UNCHANGED notSb

\* get_market_cap from line 80 to its return.
SbCapReturn ==
    /\ sb_pc = "subscribed"
    /\ sb_fn = "get_market_cap"
    /\ sb_path' = CapPath(sb_answers)
    /\ sb_open' = IF CapPathCancels(CapPath(sb_answers)) THEN sb_open - 1 ELSE sb_open
    /\ sb_pc' = "idle"
    /\ UNCHANGED <<sb_fn, sb_answers, sb_calls>>
    /\ UNCHANGED notSb

SbNext == SbOptionStart \/ SbOptionReturn \/ SbCapStart \/ SbCapReturn

SpecSubs == SbInit /\ [][SbNext]_vars

\* C28: every subscription opened with reqMktData is cancelled before the call
\* returns, on every return path: between calls no subscription is open.
C28_SubscriptionsCancelled == sb_pc = "idle" => sb_open = 0

\* get_option_data has returned its 'No price data' error and its
\* subscription is still open.
C28_Witness ==
    /\ sb_pc = "idle"
    /\ sb_fn = "get_option_data"
    /\ sb_path = "no_price"
    /\ sb_open = 1

(***************************************************************************)
(* Specification SpecParser: up to MaxRuns runs, one after the other, of   *)
(* AllocationParser.process_emails over a table of MaxEmails emails.       *)
(* Whether an email's content parses is fixed by the email; whether the    *)
(* table can be read, the file written and the row updated is decided at   *)
(* each attempt.                                                           *)
(***************************************************************************)
MaxEmails == 3

MaxRuns == 2

EmailIds == 1..MaxEmails

\* if allocation_data: ... if file_path: ... mark_email_processed, with the
\* second test dropped.
MarksAfterParse(parsed, saved) == parsed

\* process_emails lines 377-385: mark_email_processed is called when
\* parse_email returned data and save_allocation returned a path.
Marks(parsed, saved) == parsed /\ saved

ApInit ==
    /\ ap_good \in SUBSET EmailIds
    /\ ap_processed = {}
    /\ ap_run = 0
    /\ ap_pc = "idle"
    /\ ap_emails = <<>>
    /\ ap_idx = 0
    /\ ap_parsed = {}
    /\ ap_files = {}
    /\ ap_marked = {}
    /\ TSIdle
    /\ RTIdle
    /\ ATIdle
    /\ RecIdle
    /\ BTIdle
    /\ FnIdle
    /\ WtIdle
    /\ SbIdle
    /\ DbIdle

\* process_emails lines 359-368: get_unprocessed_emails returns the rows with
\* processed = 0, or [] when the database raises; an empty list ends the run.
ApFetch ==
    /\ ap_pc = "idle"
    /\ ap_run < MaxRuns
    /\ ap_run' = ap_run + 1
    /\ \E readable \in BOOLEAN :
          ap_emails' = IF readable THEN SortedSeq(EmailIds \ ap_processed) ELSE <<>>
    /\ IF ap_emails' = <<>>
       THEN /\ ap_pc' = "idle"
            /\ ap_idx' = 0
       ELSE /\ ap_pc' = "loop"
            /\ ap_idx' = 1
    /\ UNCHANGED <<ap_good, ap_processed, ap_parsed, ap_files, ap_marked>>
    /\ UNCHANGED notAp

\* One turn of the loop at lines 371-387: parse, save, mark.
ApProcess ==
    /\ ap_pc = "loop"
    /\ LET email == ap_emails[ap_idx]
           parsed == email \in ap_good
       IN  \E writable, updatable \in BOOLEAN :
              LET saved == parsed /\ writable
                  marked == Marks(parsed, saved) /\ updatable
              IN  /\ ap_parsed' = ap_parsed \cup {<<email, ap_run>>}
                  /\ ap_files' = IF saved THEN ap_files \cup {<<email, ap_run>>}
                                 ELSE ap_files
                  /\ ap_marked' = IF marked THEN ap_marked \cup {<<email, ap_run>>}
                                  ELSE ap_marked
                  /\ ap_processed' = IF marked THEN ap_processed \cup {email}
                                     ELSE ap_processed
    /\ IF ap_idx < Len(ap_emails)
       THEN /\ ap_idx' = ap_idx + 1
            /\ UNCHANGED ap_pc
       ELSE /\ ap_idx' = 0
            /\ ap_pc' = "idle"
    /\ UNCHANGED <<ap_good, ap_run, ap_emails>>
    /\ UNCHANGED notAp

ApNext == ApFetch \/ ApProcess

SpecParser == ApInit /\ [][ApNext]_vars

\* C29: an email is marked processed only after its data was parsed and
\* written to a file; an email whose parsing or saving failed stays
\* unprocessed and is in the list the next run fetches; an email marked
\* processed is not parsed or saved by a later run.
C29_ProcessedOnlyAfterSave ==
    /\ \A e \in ap_processed :
          \E r \in 1..ap_run : /\ <<e, r>> \in ap_marked
                               /\ <<e, r>> \in ap_parsed
                               /\ <<e, r>> \in ap_files
                               /\ e \in ap_good
    /\ \A e \in EmailIds, r \in 1..ap_run :
          (<<e, r>> \in ap_parsed /\ <<e, r>> \notin ap_files) =>
             /\ <<e, r>> \notin ap_marked
             /\ (ap_pc = "loop" /\ r < ap_run /\ e \notin ap_processed) =>
                    \E j \in 1..Len(ap_emails) : ap_emails[j] = e
    /\ \A e \in EmailIds, r, q \in 1..ap_run :
          (<<e, r>> \in ap_marked /\ r < q) =>
             (<<e, q>> \notin ap_parsed /\ <<e, q>> \notin ap_files)

\* The first run saved and marked one email and could not save another; the
\* second run fetched the other one only and parsed it again.
C29_Witness ==
    /\ ap_run = 2
    /\ <<1, 1>> \in ap_marked
    /\ <<2, 1>> \in ap_parsed
    /\ <<2, 1>> \notin ap_files
    /\ ap_good = EmailIds
    /\ <<2, 2>> \in ap_parsed
    /\ <<1, 2>> \notin ap_parsed

(***************************************************************************)
(* Specification SpecDB: the same save_trades calls made on a              *)
(* SQLiteDatabase and on a PostgresDatabase, both starting empty.  A trade *)
(* is its execution_id, its date and its price; a DataFrame is its rows    *)
(* and its column order: "account", the order of the dictionaries built by *)
(* AccountDataApp.execDetails (symbol, date, side, shares, price,          *)
(* execution_id, ...), or "table", the order of the INSERT's column list.  *)
(***************************************************************************)
MaxExec == 2

MaxBatch == 2

MaxSaves == 2

TradeDates == {1, 2}

Trades == [execution_id : 1..MaxExec, date : TradeDates, price : {10, 11}]

DataFrames == [cols : {"account", "table"}, rows : SeqsUpTo(Trades, MaxBatch)]

\* SQLiteDatabase.save_trades: nothing for an empty frame; otherwise
\* df.to_sql(..., if_exists='replace') drops the table and creates it from df.
SqliteSave(table, df) == IF df.rows = <<>> THEN table ELSE df.rows

\* The INSERT of PostgresDatabase.save_trades raises: the tuples of df.to_numpy()
\* are matched to the column list by position, so a frame in "account" order
\* puts side into the TIMESTAMP column date; and one statement cannot update
\* the same execution_id twice.
PostgresRaises(df) ==
    \/ df.cols = "account"
    \/ \E j, m \in 1..Len(df.rows) :
          j # m /\ df.rows[j].execution_id = df.rows[m].execution_id

\* INSERT ... ON CONFLICT (execution_id) DO UPDATE SET ...
PostgresUpsert(table, rows) ==
    {t \in table : \A j \in 1..Len(rows) : rows[j].execution_id # t.execution_id}
        \cup Range(rows)

\* SELECT * FROM account_trades WHERE date BETWEEN ? AND ?, as a set of trades.
SqliteGet(table, lo, hi) == {t \in Range(table) : lo <= t.date /\ t.date <= hi}

PostgresGet(table, lo, hi) == {t \in table : lo <= t.date /\ t.date <= hi}

DbInit ==
    /\ db_sqlite = <<>>
    /\ db_postgres = {}
    /\ db_pg_aborted = FALSE
    /\ db_batches = <<>>
    /\ TSIdle
    /\ RTIdle
    /\ ATIdle
    /\ RecIdle
    /\ BTIdle
    /\ FnIdle
    /\ WtIdle
    /\ SbIdle
    /\ ApIdle

\* save_trades(df) on both databases.
DbSaveTrades ==
    /\ Len(db_batches) < MaxSaves
    /\ \E df \in DataFrames :
          /\ db_batches' = Append(db_batches, df)
          /\ db_sqlite' = SqliteSave(db_sqlite, df)
          /\ IF df.rows = <<>> THEN UNCHANGED <<db_postgres, db_pg_aborted>>
             ELSE IF db_pg_aborted \/ PostgresRaises(df)
             THEN /\ db_pg_aborted' = TRUE
                  /\ UNCHANGED db_postgres
             ELSE /\ db_postgres' = PostgresUpsert(db_postgres, df.rows)
                  /\ UNCHANGED db_pg_aborted
    /\ UNCHANGED notDb

SpecDB == DbInit /\ [][DbSaveTrades]_vars

\* The upsert by execution_id of all batches saved so far.
RECURSIVE UpsertAll(_)
UpsertAll(batches) ==
    IF batches = <<>> THEN {}
    ELSE LET before == UpsertAll(SubSeq(batches, 1, Len(batches) - 1))
             rows == batches[Len(batches)].rows
         IN  {t \in before : \A j \in 1..Len(rows) : rows[j].execution_id # t.execution_id}
                 \cup {rows[j] : j \in {m \in 1..Len(rows) :
                          \A q \in (m + 1)..Len(rows) :
                             rows[q].execution_id # rows[m].execution_id}}

\* C27: after any sequence of save_trades calls with the same batches,
\* get_trades returns the same set of trades from both databases for every
\* date range: the upsert by execution_id of the batches, which keeps a trade
\* of an earlier batch that a later batch does not hold.
C27_DatabasesInterchangeable ==
    \A lo \in TradeDates, hi \in TradeDates :
        /\ ~db_pg_aborted
        /\ SqliteGet(db_sqlite, lo, hi) = PostgresGet(db_postgres, lo, hi)
        /\ SqliteGet(db_sqlite, lo, hi) =
              {t \in UpsertAll(db_batches) : lo <= t.date /\ t.date <= hi}

\* Two batches in the column order of the table, one trade each, with
\* different execution_ids: PostgreSQL holds both trades, SQLite the second.
C27_Witness ==
    /\ Len(db_batches) = 2
    /\ db_batches[1] = [cols |-> "table",
                        rows |-> <<[execution_id |-> 1, date |-> 1, price |-> 10]>>]
    /\ db_batches[2] = [cols |-> "table",
                        rows |-> <<[execution_id |-> 2, date |-> 1, price |-> 10]>>]
    /\ ~db_pg_aborted
    /\ PostgresGet(db_postgres, 1, 2) = Range(db_batches[1].rows) \cup Range(db_batches[2].rows)
    /\ SqliteGet(db_sqlite, 1, 2) = Range(db_batches[2].rows)

\* C23: whenever the underlying price obtained from the provider is null or
\* NaN, compute_recommendation ends with the price error, and no ATM
\* selection, slope or expected move is computed on that price: a call that
\* holds a NaN price has ended, with that error.
C23_PriceUnavailable ==
    (pc # "start" /\ IsNaN(underlying_price)) =>
        /\ pc = "done"
        /\ result = Ended("error", "price")
        /\ dtes = <<>>
        /\ IsNone(ts_slope_0_45)

\* trade_rec got a NaN price, went on to the ATM selection with it, and the
\* selection raised.
C23_Witness ==
    /\ variant = "v1"
    /\ IsNaN(underlying_price)
    /\ options_chains # <<>>
    /\ pc = "done"
    /\ result = Crash("v1", "atm")

(***************************************************************************)
(* Specification SpecYZ: yang_zhang(price_data) with its default window    *)
(* and trading_periods, on histories without missing values.  The model    *)
(* does not compute logarithms: a bar is given by the four logarithms the  *)
(* function takes of it, log(high/open), log(low/open), log(close/open)    *)
(* and log(open/previous close), so that log(close/previous close) is the  *)
(* sum of the last two; the value returned is given by its square.  A      *)
(* history is a run of one bar shape followed by a run of another.         *)
(***************************************************************************)
TradingPeriods == 252

MaxHistory == 32

LogBar(ho, lo, co, oc) ==
    [log_ho |-> Rat(ho, 10), log_lo |-> Rat(lo, 10), log_co |-> Rat(co, 10),
     log_oc |-> Rat(oc, 10)]

\* A flat bar, a rising bar, a falling bar, a gap without range, and a bar
\* whose close lies above its high.
BarShapes ==
    {LogBar(0, 0, 0, 0), LogBar(2, -1, 1, 1), LogBar(1, -3, -2, -1),
     LogBar(0, 0, 0, 3), LogBar(1, 0, 2, 0)}

Repeat(b, n) == [j \in 1..n |-> b]

PriceHistories ==
    {Repeat(t[1], t[4]) \o Repeat(t[2], t[3] - t[4]) :
        t \in {u \in BarShapes \X BarShapes \X (Window..MaxHistory) \X (0..MaxHistory) :
                  u[4] <= u[3]}}

\* rs with the first difference reversed.
RsSwapped(b) ==
    Add(Mul(b.log_ho, Sub(b.log_co, b.log_ho)), Mul(b.log_lo, Sub(b.log_lo, b.log_co)))

\* rs = log_ho * (log_ho - log_co) + log_lo * (log_lo - log_co)
Rs(b) ==
    Add(Mul(b.log_ho, Sub(b.log_ho, b.log_co)), Mul(b.log_lo, Sub(b.log_lo, b.log_co)))

\* log_oc and log_cc divide by close.shift(1), which is NaN in the first row.
LogOc(h, j) == IF j = 1 THEN NaN ELSE h[j].log_oc

LogCc(h, j) == IF j = 1 THEN NaN ELSE Add(h[j].log_oc, h[j].log_co)

RECURSIVE SumFrom(_, _, _)
SumFrom(series, lo, hi) ==
    IF lo > hi THEN Int2Rat(0)
    ELSE IF lo = hi THEN series[lo]
    ELSE LET mid == (lo + hi) \div 2
         IN  Add(SumFrom(series, lo, mid), SumFrom(series, mid + 1, hi))

\* series.rolling(window=window, center=False).sum() at the last row: NaN
\* unless the window holds `window` values that are not NaN.
RollingSumLast(series, window) ==
    LET n == Len(series)
    IN  IF n < window \/ \E j \in (n - window + 1)..n : IsNaN(series[j]) THEN NaN
        ELSE SumFrom(series, n - window + 1, n)

\* k = 0.34 / (1.34 + ((window + 1) / (window - 1)))
KWeight(window) ==
    NpDiv(Rat(34, 100), Add(Rat(134, 100), NpDiv(Int2Rat(window + 1), Int2Rat(window - 1))))

\* The square of yang_zhang(h), or NaN when it returns NaN: the square root
\* of a negative number is NaN.
YangZhangSquare(h) ==
    IF Len(h) < Window + 1 THEN NaN
    ELSE LET n == Len(h)
             scale == NpDiv(Int2Rat(1), Int2Rat(Window - 1))
             log_oc_sq == [j \in 1..n |-> Mul(LogOc(h, j), LogOc(h, j))]
             log_cc_sq == [j \in 1..n |-> Mul(LogCc(h, j), LogCc(h, j))]
             rs == [j \in 1..n |-> Rs(h[j])]
             close_vol == Mul(RollingSumLast(log_cc_sq, Window), scale)
             open_vol == Mul(RollingSumLast(log_oc_sq, Window), scale)
             window_rs == Mul(RollingSumLast(rs, Window), scale)
             kw == KWeight(Window)
             radicand == Add(Add(open_vol, Mul(kw, close_vol)),
                             Mul(Sub(Int2Rat(1), kw), window_rs))
         IN  IF IsNaN(radicand) \/ Lt(radicand, Int2Rat(0)) THEN NaN
             ELSE Mul(radicand, Int2Rat(TradingPeriods))

YZInit ==
    /\ fn_name = "yang_zhang"
    /\ fn_arg \in PriceHistories
    /\ fn_out = NotApplied
    /\ TSIdle
    /\ RTIdle
    /\ ATIdle
    /\ RecIdle
    /\ BTIdle
    /\ WtIdle
    /\ SbIdle
    /\ ApIdle
    /\ DbIdle

YZApply ==
    /\ fn_name = "yang_zhang"
    /\ ~fn_out.done
    /\ fn_out' = Applied(TRUE, YangZhangSquare(fn_arg))
    /\ UNCHANGED <<fn_name, fn_arg>>
    /\ UNCHANGED notFn

SpecYZ == YZInit /\ [][YZApply]_vars

\* high >= max(open, close) and low <= min(open, close), in logarithms.
ValidBar(b) ==
    /\ Leq(Int2Rat(0), b.log_ho)
    /\ Leq(b.log_co, b.log_ho)
    /\ Leq(b.log_lo, Int2Rat(0))
    /\ Leq(b.log_lo, b.log_co)

\* C24: for every history of at least 31 valid bars without missing values,
\* yang_zhang with window 30 returns a finite value >= 0, namely
\* sqrt(open_vol + k*close_vol + (1-k)*window_rs) * sqrt(252) over the last
\* 30 bars with k = 0.34 / (1.34 + 31/29).
C24_YangZhangNonNegative ==
    (/\ fn_name = "yang_zhang"
     /\ fn_out.done
     /\ Len(fn_arg) >= 31
     /\ \A j \in 1..Len(fn_arg) : ValidBar(fn_arg[j])) =>
        LET n == Len(fn_arg)
            oc_sq == [j \in 1..n |-> Mul(fn_arg[j].log_oc, fn_arg[j].log_oc)]
            cc_sq == [j \in 1..n |->
                         Mul(Add(fn_arg[j].log_oc, fn_arg[j].log_co),
                             Add(fn_arg[j].log_oc, fn_arg[j].log_co))]
            hl == [j \in 1..n |->
                      Add(Mul(fn_arg[j].log_ho,
                              Sub(fn_arg[j].log_ho, fn_arg[j].log_co)),
                          Mul(fn_arg[j].log_lo,
                              Sub(fn_arg[j].log_lo, fn_arg[j].log_co)))]
        IN  \* Each term is bound to its value before the next one uses it.
            \A open_vol \in {Mul(SumFrom(oc_sq, n - 29, n), Rat(1, 29))} :
            \A close_vol \in {Mul(SumFrom(cc_sq, n - 29, n), Rat(1, 29))} :
            \A window_rs \in {Mul(SumFrom(hl, n - 29, n), Rat(1, 29))} :
            \A kw \in {NpDiv(Rat(34, 100), Add(Rat(134, 100), Rat(31, 29)))} :
            \A close_part \in {Mul(kw, close_vol)} :
            \A rs_part \in {Mul(Sub(Int2Rat(1), kw), window_rs)} :
            \A radicand \in {Add(Add(open_vol, close_part), rs_part)} :
                /\ IsNum(fn_out.val)
                /\ Leq(Int2Rat(0), fn_out.val)
                /\ fn_out.val = Mul(radicand, Int2Rat(252))

\* Exactly 31 valid bars, one flat bar followed by 30 rising bars: the value
\* is positive.
C24_Witness ==
    /\ fn_name = "yang_zhang"
    /\ fn_out.done
    /\ fn_arg = Repeat(LogBar(0, 0, 0, 0), 1) \o Repeat(LogBar(2, -1, 1, 1), 30)
    /\ IsNum(fn_out.val)
    /\ Lt(Int2Rat(0), fn_out.val)

(***************************************************************************)
(* Specification SpecStrike: the strike trade_rec_v2.compute_recommendation *)
(* takes as at-the-money, from the strikes of the chain and the price.     *)
(***************************************************************************)
\* Strikes far outside the band and a ladder of strikes two apart above 97.
StrikeGrid == {70, 130} \cup {97 + 2 * m : m \in 1..MaxStrike}

\* lst[::-1]
Reversed(lst) == [j \in 1..Len(lst) |-> lst[Len(lst) + 1 - j]]

StrikePrices == {Int2Rat(100), Int2Rat(106)}

\* chain.strikes in ascending and in descending order.
StrikeLists ==
    {SortedSeq(S) : S \in SUBSET StrikeGrid} \cup
    {Reversed(SortedSeq(S)) : S \in SUBSET StrikeGrid}

\* strikes = middle_six([... if 0.8 * current_price < strike < current_price * 1.2]);
\* all_calls_exp holds one call per strike, idxmin picks the row nearest the
\* price.  0: idxmin raises on the empty list.
AtmStrikeV2(chain_strikes, price) ==
    LET ks == MiddleSix(InBand(chain_strikes, price))
        all_calls_exp == [j \in 1..Len(ks) |-> Quote(ks[j], None, None, None)]
        atm_strike_idx == IdxMin(all_calls_exp, price)
    IN  IF atm_strike_idx = 0 THEN 0 ELSE all_calls_exp[atm_strike_idx].strike

STInit ==
    /\ fn_name = "atm_strike"
    /\ fn_arg \in [strikes : StrikeLists, price : StrikePrices]
    /\ fn_out = NotApplied
    /\ TSIdle
    /\ RTIdle
    /\ ATIdle
    /\ RecIdle
    /\ BTIdle
    /\ WtIdle
    /\ SbIdle
    /\ ApIdle
    /\ DbIdle

STApply ==
    /\ fn_name = "atm_strike"
    /\ ~fn_out.done
    /\ LET k == AtmStrikeV2(fn_arg.strikes, fn_arg.price)
       IN  fn_out' = Applied(k # 0, k)
    /\ UNCHANGED <<fn_name, fn_arg>>
    /\ UNCHANGED notFn

SpecStrike == STInit /\ [][STApply]_vars

\* C25: whenever trade_rec_v2 chooses an ATM strike, no strike of the chain
\* is closer to the underlying price: the band and middle_six never remove
\* the closest strike, whatever the set and the order of the chain strikes.
C25_AtmIsClosestOfChain ==
    (fn_name = "atm_strike" /\ fn_out.done /\ fn_out.ok) =>
        \A j \in 1..Len(fn_arg.strikes) :
            Leq(AbsDiff(fn_out.val, fn_arg.price),
                AbsDiff(fn_arg.strikes[j], fn_arg.price))

\* Eight ascending strikes in the band of a price of 100: middle_six drops
\* 99 and 115, and 103 is taken although 99 is closer.
C25_Witness ==
    /\ fn_name = "atm_strike"
    /\ fn_out.done
    /\ fn_arg = [strikes |-> <<99, 103, 105, 107, 109, 111, 113, 115>>,
                 price |-> Int2Rat(100)]
    /\ fn_out.val = 103
\* The row of df of the j-th symbol of the batch.
DfRow(j) == bt_df[j]

\* C30: in earnings_calendar.get_earnings_for_date, a symbol whose data let
\* trade_rec.compute_recommendation produce a dictionary has the values of
\* the dictionary in its row once the loop has passed it, and when it meets
\* the three criteria it is in the rows returned, rated Go.
C30_Ec1CopiesRecommendation ==
    bt_variant = "ec1" =>
        \A j \in 1..Len(bt_data) :
            bt_data[j].kind = "dict" =>
                /\ bt_tickers[j] \notin bt_errors
                /\ DfRow(j) = Row(bt_tickers[j], bt_data[j].cells)
                /\ (/\ bt_end = "returned"
                    /\ bt_data[j].cells.avg_volume = "True"
                    /\ bt_data[j].cells.iv30_rv30 = "True"
                    /\ bt_data[j].cells.ts_slope_0_45 = "True") =>
                        \E m \in 1..Len(bt_out) :
                            /\ bt_out[m].Symbol = bt_tickers[j]
                            /\ bt_out[m].rating = "Go"

\* ec1 has returned; the data of its first symbol give a dictionary meeting
\* the three criteria, the call was logged as an error, the row kept its
\* initial cells and no row is returned.
C30_Witness ==
    /\ bt_variant = "ec1"
    /\ bt_end = "returned"
    /\ Len(bt_data) >= 1
    /\ bt_data[1].kind = "dict"
    /\ bt_data[1].cells.avg_volume = "True"
    /\ bt_data[1].cells.iv30_rv30 = "True"
    /\ bt_data[1].cells.ts_slope_0_45 = "True"
    /\ bt_tickers[1] \in bt_errors
    /\ DfRow(1) = Row(bt_tickers[1], NoCells)
    /\ bt_out = <<>>
=============================================================================
